---- MODULE Spec2Model ----
(***************************************************************************)
(* activity.2k36.org: the Cloudflare Worker that aggregates a user's       *)
(* public GitHub activity and serves it through an edge cache.             *)
(*                                                                         *)
(*   Spec          the /api/activity.json handler (worker/src/index.ts):   *)
(*                 cache lookup, freshness, rate-limit side channel,       *)
(*                 revalidation lease, background refresh, miss path,      *)
(*                 with several requests interleaving at their awaits.     *)
(*   SpecClassify  responseAgeSeconds / classifyAge as pure functions.     *)
(*   SpecAgg       getRecentActivity / getRecentActivityPreview            *)
(*                 (worker/src/github/events.ts).                          *)
(*   SpecNormalize normalizeEvent / normalizeEventPreview on one event.    *)
(*   SpecClient    fetchGitHubResponse (worker/src/github/client.ts).      *)
(*   SpecLimiter   createLimiter (worker/src/github/events.ts).            *)
(*   SpecApp       the App component's activity state (src/App.tsx).       *)
(*   SpecRun       getRecentActivity on given pages and upstream answers,  *)
(*                 its lookups completing one at a time in any order.      *)
(*                                                                         *)
(* Times are in milliseconds (Date.now()); the code's ageSeconds is        *)
(* ms / 1000, so "ageSeconds <= n" is modelled as "ageMs <= n * 1000".     *)
(* An optional value is <<>> (null / undefined) or <<v>>.                  *)
(***************************************************************************)
EXTENDS Integers, Sequences, FiniteSets, TLC

VARIABLES
  \* ---- edge cache handler (Spec) ----
  now,        \* Date.now(), ms
  ticks,      \* number of clock advances so far
  cache,      \* caches.default entry under activityCacheKey: <<>> or <<Response>>
  lease,      \* entry under revalidateLockKey: <<>> or <<Response>>
  rlReset,    \* rate-limit side entry: <<>> or <<unix seconds>>
  pc,         \* per request: where the handler is suspended
  cached,     \* per request: the Response cache.match(cacheKey) returned
  cstate,     \* per request: classifyAge of that response
  lockNow,    \* per request: the timestamp computed before the lease put
  resp,       \* per request: the Response returned to the caller
  bg,         \* per request: state of the ctx.waitUntil task
  pendingPut, \* per request: the cache.put(cacheKey, ..) issued on a miss
  refreshes,  \* history: the background refresh attempts started, each with
              \* its lease timestamp (at) and the moment it started
  raced,      \* history: a lease was read while another request was
              \* between its lease read and its lease write
  \* ---- classification (SpecClassify) ----
  cIn,        \* the input: header, clock, policy
  cOut,       \* the outputs computed from it
  \* ---- aggregation (SpecAgg) ----
  agg,        \* state of one aggregation run
  \* ---- normalisation (SpecNormalize) ----
  norm,       \* one event, and what normalizeEvent / normalizeEventPreview give
  \* ---- upstream client (SpecClient) ----
  client,     \* state of one fetchGitHubResponse call
  \* ---- concurrency limiter (SpecLimiter) ----
  lim,        \* state of one limiter and of the tasks submitted to it
  \* ---- frontend (SpecApp) ----
  app,        \* the App component: its state, the stored copy, the arrivals
  \* ---- one aggregation run, lookup by lookup (SpecRun) ----
  run         \* the pages and upstream answers of the run, and its state

cacheVars == <<now, ticks, cache, lease, rlReset, pc, cached, cstate, lockNow,
               resp, bg, pendingPut, refreshes, raced>>
classifyVars == <<cIn, cOut>>
aggVars == <<agg>>
normVars == <<norm>>
clientVars == <<client>>
limVars == <<lim>>
appVars == <<app>>
runVars == <<run>>
vars ==
  <<cacheVars, classifyVars, aggVars, normVars, clientVars, limVars, appVars, runVars>>

None == <<>>
Some(v) == <<v>>
IsSome(o) == o # <<>>
Val(o) == o[1]

(***************************************************************************)
(* worker/src/activity/types.ts (cache policy and freshness)               *)
(***************************************************************************)
maxAgeSeconds == 60
staleWhileRevalidateSeconds == 300
DEFAULT_CACHE_POLICY ==
  [maxAgeSeconds |-> maxAgeSeconds,
   staleWhileRevalidateSeconds |-> staleWhileRevalidateSeconds]

\* A header value: absent, empty, not a date, or an ISO timestamp of t ms.
NoHeader == [k |-> "absent", t |-> 0]
EmptyHeader == [k |-> "empty", t |-> 0]
BadHeader == [k |-> "garbage", t |-> 0]
toISOString(t) == [k |-> "iso", t |-> t]

\* Date.parse: the instant of an ISO string, NaN (here <<>>) for anything else.
DateParse(h) == IF h.k = "iso" THEN Some(h.t) ELSE None

\* responseAgeSeconds, in ms: null when the marker is missing or unparsable.
responseAgeSeconds(xgen, clock) ==
  IF xgen.k \in {"absent", "empty"} THEN None
  ELSE IF DateParse(xgen) = None THEN None
  ELSE Some(clock - Val(DateParse(xgen)))

classifyAgeStrict(age, policy) ==
  IF age = None THEN "stale"
  ELSE IF Val(age) < policy.maxAgeSeconds * 1000 THEN "fresh"
  ELSE IF Val(age) <= (policy.maxAgeSeconds + policy.staleWhileRevalidateSeconds) * 1000
    THEN "stale"
  ELSE "expired"

classifyAgeNullFresh(age, policy) ==
  IF age = None THEN "fresh"
  ELSE IF Val(age) <= policy.maxAgeSeconds * 1000 THEN "fresh"
  ELSE IF Val(age) <= (policy.maxAgeSeconds + policy.staleWhileRevalidateSeconds) * 1000
    THEN "stale"
  ELSE "expired"

classifyAge(age, policy) ==
  IF age = None THEN "stale"
  ELSE IF Val(age) <= policy.maxAgeSeconds * 1000 THEN "fresh"
  ELSE IF Val(age) <= (policy.maxAgeSeconds + policy.staleWhileRevalidateSeconds) * 1000
    THEN "stale"
  ELSE "expired"

\* withExtraHeaders: the same response with x-cache set and, when given,
\* x-rate-limit-reset overwritten.
withExtraHeaders(res, xcache, extraReset) ==
  [res EXCEPT !.xcache = xcache,
              !.xreset = IF IsSome(extraReset) THEN extraReset ELSE @]

(***************************************************************************)
(* worker/src/index.ts                                                     *)
(***************************************************************************)
NumRequests == 2
MaxTicks == 1
\* The requests in progress: those the handler keeps a position for.
Requests == DOMAIN pc
TickSteps == {15000, 16000}
InitNow == {60000, 360000}
ResetAheadSeconds == 10

LOCK_MAX_AGE_SECONDS == 15

NoBody == [tag |-> "none", generatedAt |-> 0, by |-> 0, partial |-> FALSE, errKind |-> "none"]
NoResp == [status |-> 0, body |-> NoBody, xgen |-> NoHeader, xcache |-> "", xreset |-> None]

\* What one call of getRecentActivity can end in, seen from the handler: a
\* response (complete, or partial with errorInfo) or a thrown error; reset is
\* the rateLimitReset of the error, when it carries one.
AggOutcomes(clock) ==
  LET reset == Some((clock \div 1000) + ResetAheadSeconds) IN
    {[ok |-> TRUE, errKind |-> "none", reset |-> None],
     [ok |-> TRUE, errKind |-> "rate_limit", reset |-> reset],
     [ok |-> TRUE, errKind |-> "server", reset |-> reset],
     [ok |-> FALSE, errKind |-> "rate_limit", reset |-> reset],
     [ok |-> FALSE, errKind |-> "rate_limit", reset |-> None],
     [ok |-> FALSE, errKind |-> "server", reset |-> reset],
     [ok |-> FALSE, errKind |-> "exception", reset |-> None]}

ActivityData(out, clock, r) ==
  [tag |-> "data", generatedAt |-> clock, by |-> r,
   partial |-> (out.errKind # "none"), errKind |-> out.errKind]

\* json(fresh.data, {status: 200, headers: {x-generated-at, ...rateLimitHeaders}})
json(data, rateLimitReset) ==
  [status |-> 200, body |-> data, xgen |-> toISOString(data.generatedAt),
   xcache |-> "", xreset |-> rateLimitReset]

errorJsonDefaultStatus(out, r) ==
  [status |-> 200,
   body |-> [tag |-> "error", generatedAt |-> 0, by |-> r, partial |-> FALSE,
             errKind |-> out.errKind],
   xgen |-> NoHeader, xcache |-> "",
   xreset |-> IF out.errKind = "exception" THEN None ELSE out.reset]

\* json({error, message, errorInfo}, {status: 502, headers: rateLimitHeaders(..)})
errorJson(out, r) ==
  [status |-> 502,
   body |-> [tag |-> "error", generatedAt |-> 0, by |-> r, partial |-> FALSE,
             errKind |-> out.errKind],
   xgen |-> NoHeader, xcache |-> "",
   xreset |-> IF out.errKind = "exception" THEN None ELSE out.reset]

\* The rate-limit side entry of the cache store.
readRateLimitReset(entry) == entry
writeRateLimitReset(entry, reset) == Some(reset)

getActiveRateLimitResetNoClock(entry, clock) ==
  LET reset == readRateLimitReset(entry) IN
    IF reset = None \/ Val(reset) = 0 THEN None ELSE reset

getActiveRateLimitReset(entry, clock) ==
  LET reset == readRateLimitReset(entry) IN
    IF reset = None \/ Val(reset) = 0 THEN None
    ELSE IF Val(reset) > clock \div 1000 THEN reset ELSE None

storeRateLimitReset(entry, reset) ==
  IF reset = None \/ Val(reset) = 0 THEN entry
  ELSE writeRateLimitReset(entry, Val(reset))

RateLimitAfterAnyKind(entry, out) == storeRateLimitReset(entry, out.reset)

\* The side entry after an aggregation ended in `out`: written only for
\* errorInfo.kind (or the thrown error's kind) rate_limit.
RateLimitAfter(entry, out) ==
  IF out.errKind = "rate_limit" THEN storeRateLimitReset(entry, out.reset) ELSE entry

needsRefreshAlways(state) == TRUE

\* if (state !== "fresh")
needsRefresh(state) == state # "fresh"

leaseAllowsRefreshAlways(lockAge) == TRUE

leaseAllowsRefreshAtFifteen(lockAge) ==
  lockAge = None \/ Val(lockAge) >= LOCK_MAX_AGE_SECONDS * 1000

\* if (lockAge == null || lockAge > 15)
leaseAllowsRefresh(lockAge) ==
  lockAge = None \/ Val(lockAge) > LOCK_MAX_AGE_SECONDS * 1000

CacheAfterRefreshKeepingComplete(entry, out, clock, r) ==
  IF out.ok /\ ~(out.errKind # "none" /\ IsSome(entry) /\ ~Val(entry).body.partial)
    THEN Some(json(ActivityData(out, clock, r), out.reset))
  ELSE entry

CacheAfterRefreshEvicting(entry, out, clock, r) ==
  IF out.ok THEN Some(json(ActivityData(out, clock, r), out.reset)) ELSE None

\* The cache entry after the background task ended in `out`: overwritten when
\* the aggregation returned, untouched when it threw.
CacheAfterRefresh(entry, out, clock, r) ==
  IF out.ok THEN Some(json(ActivityData(out, clock, r), out.reset)) ELSE entry

MissStoreNothing(res) == None

\* ctx.waitUntil(cache.put(cacheKey, res.clone()))
MissStore(res) == Some(res)

\* No request of R has been handled yet.
Arriving(R) ==
  /\ pc = [r \in R |-> "start"]
  /\ cached = [r \in R |-> None]
  /\ cstate = [r \in R |-> "none"]
  /\ lockNow = [r \in R |-> 0]
  /\ resp = [r \in R |-> NoResp]
  /\ bg = [r \in R |-> "none"]
  /\ pendingPut = [r \in R |-> None]

InitCache ==
  /\ \/ cache = None /\ now = 60000
     \/ /\ cache = Some(json([tag |-> "data", generatedAt |-> 0, by |-> 0,
                               partial |-> FALSE, errKind |-> "none"], None))
        /\ now \in InitNow
  /\ ticks = 0
  /\ lease = None
  /\ rlReset = None
  /\ Arriving(1..NumRequests)
  /\ refreshes = {}
  /\ raced = FALSE

ClassifyIdle == cIn = <<>> /\ cOut = <<>>
AggIdle == agg = <<>>
NormIdle == norm = <<>>
ClientIdle == client = <<>>
LimIdle == lim = <<>>
AppIdle == app = <<>>
RunIdle == run = <<>>

Init ==
  InitCache /\ ClassifyIdle /\ AggIdle /\ NormIdle /\ ClientIdle /\ LimIdle /\ AppIdle
  /\ RunIdle

\* Time passes.
Tick(d) ==
  /\ ticks < MaxTicks
  /\ now' = now + d
  /\ ticks' = ticks + 1
  /\ UNCHANGED <<cache, lease, rlReset, pc, cached, cstate, lockNow, resp, bg,
                 pendingPut, refreshes, raced>>
  /\ UNCHANGED <<classifyVars, aggVars, normVars, clientVars, limVars, appVars, runVars>>

\* const cached = await cache.match(cacheKey): a miss goes on to the
\* synchronous fetch, a fresh hit answers at once, any other hit goes on to
\* the rate-limit check. Requests are numbered in the order of this read.
Match(r) ==
  /\ pc[r] = "start"
  /\ \A q \in Requests : q < r => pc[q] # "start"
  /\ cached' = [cached EXCEPT ![r] = cache]
  /\ IF cache = None
       THEN /\ pc' = [pc EXCEPT ![r] = "miss"]
            /\ cstate' = [cstate EXCEPT ![r] = "miss"]
            /\ resp' = resp
       ELSE LET age == responseAgeSeconds(Val(cache).xgen, now)
                state == classifyAge(age, DEFAULT_CACHE_POLICY)
            IN /\ cstate' = [cstate EXCEPT ![r] = state]
               /\ IF needsRefresh(state)
                    THEN /\ pc' = [pc EXCEPT ![r] = "rl"]
                         /\ resp' = resp
                    ELSE /\ pc' = [pc EXCEPT ![r] = "done"]
                         /\ resp' = [resp EXCEPT ![r] =
                              withExtraHeaders(Val(cache),
                                IF state = "fresh" THEN "HIT" ELSE "STALE", None)]
  /\ UNCHANGED <<now, ticks, cache, lease, rlReset, lockNow, bg, pendingPut,
                 refreshes, raced>>
  /\ UNCHANGED <<classifyVars, aggVars, normVars, clientVars, limVars, appVars, runVars>>

\* activeReset = await getActiveRateLimitReset(..): an active reset answers
\* with the stale content and the reset, otherwise on to the lease.
ReadRateLimit(r) ==
  /\ pc[r] = "rl"
  /\ LET activeReset == getActiveRateLimitReset(rlReset, now) IN
       IF IsSome(activeReset)
         THEN /\ pc' = [pc EXCEPT ![r] = "done"]
              /\ resp' = [resp EXCEPT ![r] =
                   withExtraHeaders(Val(cached[r]), "STALE", activeReset)]
         ELSE /\ pc' = [pc EXCEPT ![r] = "lock"]
              /\ resp' = resp
  /\ UNCHANGED <<now, ticks, cache, lease, rlReset, cached, cstate, lockNow, bg,
                 pendingPut, refreshes, raced>>
  /\ UNCHANGED <<classifyVars, aggVars, normVars, clientVars, limVars, appVars, runVars>>

\* const lock = await cache.match(lockKey): a young lease answers with the
\* stale content; otherwise the new lease's timestamp is taken and the put
\* is awaited.
ReadLock(r) ==
  /\ pc[r] = "lock"
  /\ raced' = (raced \/ \E q \in Requests \ {r} : pc[q] = "putlock")
  /\ LET lockAge == IF IsSome(lease) THEN responseAgeSeconds(Val(lease).xgen, now)
                    ELSE None
     IN IF leaseAllowsRefresh(lockAge)
          THEN /\ lockNow' = [lockNow EXCEPT ![r] = now]
               /\ pc' = [pc EXCEPT ![r] = "putlock"]
               /\ resp' = resp
          ELSE /\ lockNow' = lockNow
               /\ pc' = [pc EXCEPT ![r] = "done"]
               /\ resp' = [resp EXCEPT ![r] =
                    withExtraHeaders(Val(cached[r]),
                      IF cstate[r] = "fresh" THEN "HIT" ELSE "STALE", None)]
  /\ UNCHANGED <<now, ticks, cache, lease, rlReset, cached, cstate, bg,
                 pendingPut, refreshes>>
  /\ UNCHANGED <<classifyVars, aggVars, normVars, clientVars, limVars, appVars, runVars>>

PutLockAwaitingRefresh(r) ==
  /\ pc[r] = "putlock"
  /\ lease' = Some([NoResp EXCEPT !.status = 200, !.xgen = toISOString(lockNow[r])])
  /\ bg' = [bg EXCEPT ![r] = "running"]
  /\ refreshes' = refreshes \cup {[req |-> r, at |-> lockNow[r], started |-> now]}
  /\ pc' = [pc EXCEPT ![r] = "awaitRefresh"]
  /\ UNCHANGED <<now, ticks, cache, rlReset, cached, cstate, lockNow, resp,
                 pendingPut, raced>>
  /\ UNCHANGED <<classifyVars, aggVars, normVars, clientVars, limVars, appVars, runVars>>

\* await cache.put(lockKey, ..) is done: the refresh is started under
\* ctx.waitUntil and, without awaiting it, the stale content is returned.
PutLock(r) ==
  /\ pc[r] = "putlock"
  /\ lease' = Some([NoResp EXCEPT !.status = 200, !.xgen = toISOString(lockNow[r])])
  /\ bg' = [bg EXCEPT ![r] = "running"]
  /\ refreshes' = refreshes \cup {[req |-> r, at |-> lockNow[r], started |-> now]}
  /\ pc' = [pc EXCEPT ![r] = "done"]
  /\ resp' = [resp EXCEPT ![r] =
       withExtraHeaders(Val(cached[r]),
         IF cstate[r] = "fresh" THEN "HIT" ELSE "STALE", None)]
  /\ UNCHANGED <<now, ticks, cache, rlReset, cached, cstate, lockNow,
                 pendingPut, raced>>
  /\ UNCHANGED <<classifyVars, aggVars, normVars, clientVars, limVars, appVars, runVars>>

\* The background task ends: getRecentActivity returned or threw.
RefreshReturn(r, out) ==
  /\ bg[r] = "running"
  /\ out \in AggOutcomes(now)
  /\ rlReset' = RateLimitAfter(rlReset, out)
  /\ cache' = CacheAfterRefresh(cache, out, now, r)
  /\ bg' = [bg EXCEPT ![r] = IF out.ok THEN "stored" ELSE "failed"]
  /\ UNCHANGED <<now, ticks, lease, pc, cached, cstate, lockNow, resp,
                 pendingPut, refreshes, raced>>
  /\ UNCHANGED <<classifyVars, aggVars, normVars, clientVars, limVars, appVars, runVars>>

\* Cache miss: the awaited getRecentActivity returned or threw.
MissReturn(r, out) ==
  /\ pc[r] = "miss"
  /\ out \in AggOutcomes(now)
  /\ rlReset' = RateLimitAfter(rlReset, out)
  /\ IF out.ok
       THEN LET res == json(ActivityData(out, now, r), out.reset) IN
            /\ pendingPut' = [pendingPut EXCEPT ![r] = MissStore(res)]
            /\ resp' = [resp EXCEPT ![r] = withExtraHeaders(res, "MISS", None)]
            /\ pc' = [pc EXCEPT ![r] = "putting"]
       ELSE /\ pendingPut' = pendingPut
            /\ resp' = [resp EXCEPT ![r] = errorJson(out, r)]
            /\ pc' = [pc EXCEPT ![r] = "done"]
  /\ UNCHANGED <<now, ticks, cache, lease, cached, cstate, lockNow, bg,
                 refreshes, raced>>
  /\ UNCHANGED <<classifyVars, aggVars, normVars, clientVars, limVars, appVars, runVars>>

\* The cache.put handed to ctx.waitUntil on a miss completes.
MissPut(r) ==
  /\ pc[r] = "putting"
  /\ cache' = IF IsSome(pendingPut[r]) THEN pendingPut[r] ELSE cache
  /\ pendingPut' = [pendingPut EXCEPT ![r] = None]
  /\ pc' = [pc EXCEPT ![r] = "done"]
  /\ UNCHANGED <<now, ticks, lease, rlReset, cached, cstate, lockNow, resp, bg,
                 refreshes, raced>>
  /\ UNCHANGED <<classifyVars, aggVars, normVars, clientVars, limVars, appVars, runVars>>

Next ==
  \/ \E d \in TickSteps : Tick(d)
  \/ \E r \in Requests : Match(r)
  \/ \E r \in Requests : ReadRateLimit(r)
  \/ \E r \in Requests : ReadLock(r)
  \/ \E r \in Requests : PutLock(r)
  \/ \E r \in Requests : \E out \in AggOutcomes(now) : RefreshReturn(r, out)
  \/ \E r \in Requests : \E out \in AggOutcomes(now) : MissReturn(r, out)
  \/ \E r \in Requests : MissPut(r)

Spec == Init /\ [][Next]_vars

\* The handler with more requests arriving at one moment, on an entry that
\* is missing or already stale, to let several of them read the cache and
\* the lease before any of them writes.
RacingRequests == 3

InitRace ==
  /\ \/ cache = None
     \/ cache = Some(json([tag |-> "data", generatedAt |-> 0, by |-> 0,
                           partial |-> FALSE, errKind |-> "none"], None))
  /\ now = 360000
  /\ ticks = 0
  /\ lease = None
  /\ rlReset = None
  /\ Arriving(1..RacingRequests)
  /\ refreshes = {}
  /\ raced = FALSE
  /\ ClassifyIdle
  /\ AggIdle
  /\ NormIdle
  /\ ClientIdle
  /\ LimIdle
  /\ AppIdle
  /\ RunIdle

SpecRace == InitRace /\ [][Next]_vars

(***************************************************************************)
(* SpecClassify: responseAgeSeconds and classifyAge on bounded inputs.     *)
(***************************************************************************)
MaxAgeTenths == 4810
Policies ==
  [maxAgeSeconds : {0, maxAgeSeconds, 180},
   staleWhileRevalidateSeconds : {0, staleWhileRevalidateSeconds}]

CacheIdle ==
  /\ now = 0 /\ ticks = 0 /\ cache = None /\ lease = None /\ rlReset = None
  /\ pc = <<>> /\ cached = <<>> /\ cstate = <<>> /\ lockNow = <<>>
  /\ resp = <<>> /\ bg = <<>> /\ pendingPut = <<>>
  /\ refreshes = {} /\ raced = FALSE

\* The entry was generated at instant 0, so the clock is its age.
InitClassify ==
  /\ \/ cIn \in [xgen : {toISOString(0)},
                 clock : {k * 100 : k \in 0..MaxAgeTenths},
                 policy : Policies]
     \/ cIn \in [xgen : {NoHeader, EmptyHeader, BadHeader},
                 clock : {0},
                 policy : Policies]
  /\ cOut = <<>>
  /\ CacheIdle
  /\ AggIdle
  /\ NormIdle
  /\ ClientIdle
  /\ LimIdle
  /\ AppIdle
  /\ RunIdle

\* const age = responseAgeSeconds(cached); const state = classifyAge(age, policy)
Classify ==
  /\ cOut = <<>>
  /\ LET age == responseAgeSeconds(cIn.xgen, cIn.clock) IN
       cOut' = Some([age |-> age, state |-> classifyAge(age, cIn.policy)])
  /\ UNCHANGED cIn
  /\ UNCHANGED <<cacheVars, aggVars, normVars, clientVars, limVars, appVars, runVars>>

NextClassify == Classify

SpecClassify == InitClassify /\ [][NextClassify]_vars

(***************************************************************************)
(* worker/src/github/events.ts: events, pull-request payloads, helpers      *)
(***************************************************************************)
repoHtmlUrl(repoName) == "https://github.com/" \o repoName
userHtmlUrl(login) == "https://github.com/" \o login
pullRequestHtmlUrl(repoName, number) ==
  "https://github.com/" \o repoName \o "/pull/" \o ToString(number)
repoApiUrl(repoName) == "https://api.github.com/repos/" \o repoName

\* String.prototype.trim and the whitespace collapsing of summarizeText, on
\* the strings that occur in the events below.
Trim(s) ==
  CASE s = " " -> ""
    [] s = " Fix bug " -> "Fix bug"
    [] OTHER -> s
CollapseWhitespace(s) ==
  CASE s = "line one\nline two" -> "line one line two"
    [] s = "\n \n" -> " "
    [] OTHER -> s

summarizeTextUntrimmed(input) ==
  IF input = None \/ Val(input) = "" THEN None
  ELSE Some(CollapseWhitespace(Val(input)))

\* summarizeText for inputs of at most 160 characters (none is cut).
summarizeText(input) ==
  IF input = None THEN None
  ELSE LET s == Trim(CollapseWhitespace(Val(input))) IN
         IF s = "" THEN None ELSE Some(s)

reviewStateFromGitHub(input) ==
  IF input = None THEN "unknown"
  ELSE IF Val(input) \in {"approved", "changes_requested", "commented",
                          "dismissed", "pending"}
         THEN Val(input)
  ELSE IF Val(input) = "APPROVED" THEN "approved"
  ELSE IF Val(input) = "COMMENTED" THEN "commented"
  ELSE "unknown"

\* !x of JavaScript for an optional string: undefined or "".
Falsy(o) == o = None \/ Val(o) = ""
\* a ?? b
Coalesce(a, b) == IF IsSome(a) THEN a ELSE b

\* payload.pull_request as GitHub sends it: every field may be missing;
\* hasMergedAt is "merged_at" in pr.
NoPullRequest ==
  [title |-> None, html_url |-> None, body |-> None, merged |-> None,
   hasMergedAt |-> FALSE, merged_at |-> None, url |-> None, number |-> None]

\* A GitHub event. title / html / body are those of the issue, comment,
\* review or release the event is about; tag is release.tag_name, state is
\* review.state, number is payload.number.
EventOf(id, type, action, repo, t) ==
  [id |-> id, type |-> type, action |-> action,
   actor |-> "octocat", repo |-> repo, created_at |-> toISOString(t * 1000),
   title |-> None, tag |-> None, html |-> None, body |-> None, state |-> None,
   number |-> None, pull_request |-> None]

extractPullRequestPayloadUnmerged(pr) ==
  LET p == IF IsSome(pr) THEN Val(pr) ELSE NoPullRequest
  IN [title |-> IF IsSome(p.title) THEN Some(Trim(Val(p.title))) ELSE None,
      htmlUrl |-> p.html_url,
      body |-> p.body,
      merged |-> None,
      apiUrl |-> p.url]

extractPullRequestPayload(pr) ==
  LET p == IF IsSome(pr) THEN Val(pr) ELSE NoPullRequest
      merged == IF IsSome(p.merged) THEN p.merged
                ELSE IF IsSome(pr) /\ p.hasMergedAt THEN Some(IsSome(p.merged_at))
                ELSE None
  IN [title |-> IF IsSome(p.title) THEN Some(Trim(Val(p.title))) ELSE None,
      htmlUrl |-> p.html_url,
      body |-> p.body,
      merged |-> merged,
      apiUrl |-> p.url]

\* payload.pull_request?.number ?? payload.number
PrNumber(event) ==
  Coalesce(IF IsSome(event.pull_request) THEN Val(event.pull_request).number ELSE None,
           event.number)

resolvePullRequestApiUrl(event) ==
  IF IsSome(event.pull_request) /\ IsSome(Val(event.pull_request).url)
    THEN Val(event.pull_request).url
  ELSE IF IsSome(PrNumber(event))
    THEN Some(repoApiUrl(event.repo) \o "/pulls/" \o ToString(Val(PrNumber(event))))
  ELSE None

\* payload.pull_request?.number, the number the review branches use.
PrNumberOfPullRequest(event) ==
  IF IsSome(event.pull_request) THEN Val(event.pull_request).number ELSE None

needsPullRequestFetch(event) ==
  LET prPayload == extractPullRequestPayload(event.pull_request) IN
  IF event.type = "PullRequestEvent"
    THEN IF event.action \notin {"opened", "closed", "reopened"} THEN None
         ELSE IF ~Falsy(prPayload.title)
                 /\ ~(event.action = "closed" /\ prPayload.merged = None)
           THEN None
         ELSE resolvePullRequestApiUrl(event)
  ELSE IF event.type \in {"PullRequestReviewEvent", "PullRequestReviewCommentEvent"}
    THEN IF event.action # "created" THEN None
         ELSE IF ~Falsy(prPayload.title) THEN None
         ELSE resolvePullRequestApiUrl(event)
  ELSE None

recordPartial(tracker, error) ==
  [partial |-> TRUE,
   errorInfo |-> IF IsSome(tracker.errorInfo) THEN tracker.errorInfo ELSE Some(error)]

\* The pull request the API returns for prApiUrl; outcome tells whether it
\* has been merged.
PullRequestApiResponse(prApiUrl, outcome) ==
  [title |-> Some("Add feature"),
   html_url |-> Some(IF prApiUrl = "https://api.github.com/repos/acme/widget/pulls/7"
                       THEN "https://github.com/acme/widget/pull/7"
                       ELSE "https://github.com/acme/widget/pull/8"),
   body |-> Some("line one\nline two"),
   merged_at |-> IF outcome = "merged" THEN Some(toISOString(15000)) ELSE None]

\* The error of a failed request, as the client reports it.
GitHubErrorInfo(kind, status, message) ==
  [kind |-> kind, status |-> status, message |-> message]

\* What fetchPullRequest memoises for an upstream outcome: the pull request,
\* or the error of the failed lookup.
PullRequestMemoEntry(prApiUrl, outcome) ==
  IF outcome = "fail"
    THEN [pr |-> None, error |-> Some(GitHubErrorInfo("server", 500, "Server Error"))]
  ELSE IF outcome = "rate_limit"
    THEN [pr |-> None,
          error |-> Some(GitHubErrorInfo("rate_limit", 403, "API rate limit exceeded"))]
  ELSE [pr |-> Some(PullRequestApiResponse(prApiUrl, outcome)), error |-> None]

\* memo.set(prApiUrl, ..); return { pr, error }
Memoized(memo, prApiUrl, entry) ==
  [memo |-> memo @@ (prApiUrl :> entry), pr |-> entry.pr, error |-> entry.error]

fetchPullRequestForgettingFailures(prApiUrl, memo, upstream) ==
  IF prApiUrl \in DOMAIN memo
    THEN [memo |-> memo, pr |-> memo[prApiUrl].pr, error |-> memo[prApiUrl].error]
  ELSE IF upstream[prApiUrl] \in {"fail", "rate_limit"}
    THEN [memo |-> memo, pr |-> None,
          error |-> PullRequestMemoEntry(prApiUrl, upstream[prApiUrl]).error]
  ELSE Memoized(memo, prApiUrl, PullRequestMemoEntry(prApiUrl, upstream[prApiUrl]))

\* fetchPullRequest: the memo entry when there is one, else the upstream
\* lookup, whose outcome upstream[prApiUrl] is "merged", "open", "fail" (a
\* server error) or "rate_limit";
\* the shared JSON cache answers like a successful lookup.
fetchPullRequest(prApiUrl, memo, upstream) ==
  IF prApiUrl \in DOMAIN memo
    THEN [memo |-> memo, pr |-> memo[prApiUrl].pr, error |-> memo[prApiUrl].error]
  ELSE Memoized(memo, prApiUrl, PullRequestMemoEntry(prApiUrl, upstream[prApiUrl]))

\* if (needsFetch && prApiUrl) await fetchPullRequest(..): without a lookup
\* there is neither a pull request nor an error, and the memo is as it was.
fetchPullRequestIf(needsFetch, prApiUrl, memo, upstream) ==
  IF needsFetch /\ ~Falsy(prApiUrl) THEN fetchPullRequest(Val(prApiUrl), memo, upstream)
  ELSE [memo |-> memo, pr |-> None, error |-> None]

TrackerAfterAlways(tracker, f) ==
  recordPartial(tracker, GitHubErrorInfo("unknown", 0, ""))

TrackerAfterNever(tracker, f) == tracker

\* if (pr) { .. } else if (error) recordPartial(context.tracker, error)
TrackerAfter(tracker, f) ==
  IF f.pr = None /\ IsSome(f.error) THEN recordPartial(tracker, Val(f.error))
  ELSE tracker

ActivityItem(event, kind, title, url, summary, reviewState) ==
  [id |-> event.id, kind |-> kind, createdAt |-> event.created_at,
   actor |-> [login |-> event.actor, url |-> userHtmlUrl(event.actor)],
   repo |-> [name |-> event.repo, url |-> repoHtmlUrl(event.repo)],
   title |-> title, url |-> url, summary |-> summary, reviewState |-> reviewState]

\* What normalizeEvent hands back: the item or null, and the memo and the
\* tracker as it leaves them.
Normalized(item, prMemo, tracker) ==
  [item |-> item, prMemo |-> prMemo, tracker |-> tracker]

OptTrim(o) == IF IsSome(o) THEN Some(Trim(Val(o))) ELSE None

normalizeTitledEventAnyAction(event, action, kind) ==
  IF Falsy(OptTrim(event.title)) \/ Falsy(event.html) THEN None
  ELSE Some(ActivityItem(event, kind, Val(OptTrim(event.title)), Val(event.html),
                         summarizeText(event.body), None))

\* IssuesEvent and IssueCommentEvent branches (same shape, other kind).
normalizeTitledEvent(event, action, kind) ==
  LET title == OptTrim(event.title) IN
  IF event.action # action \/ Falsy(title) \/ Falsy(event.html) THEN None
  ELSE Some(ActivityItem(event, kind, Val(title), Val(event.html),
                         summarizeText(event.body), None))

normalizeReleaseEvent(event) ==
  LET name == OptTrim(event.title)
      titleRaw == IF Falsy(name) THEN OptTrim(event.tag) ELSE name
  IN IF event.action # "published" \/ Falsy(titleRaw) \/ Falsy(event.html) THEN None
     ELSE Some(ActivityItem(event, "release_published", Val(titleRaw), Val(event.html),
                            summarizeText(event.body), None))

Suffix(prNumber) == IF IsSome(prNumber) THEN " #" \o ToString(Val(prNumber)) ELSE ""

\* The PullRequestEvent branch from the lookup on; f is what the lookup gave.
PullRequestEventItem(event, prPayload, prNumber, tracker, f) ==
  LET title1 == IF IsSome(f.pr) THEN Coalesce(prPayload.title, OptTrim(Val(f.pr).title))
                ELSE prPayload.title
      url1 == IF IsSome(f.pr) THEN Coalesce(prPayload.htmlUrl, Val(f.pr).html_url)
              ELSE prPayload.htmlUrl
      summary == IF IsSome(f.pr) THEN Coalesce(summarizeText(prPayload.body),
                                               summarizeText(Val(f.pr).body))
                 ELSE summarizeText(prPayload.body)
      merged == IF IsSome(f.pr) /\ prPayload.merged = None
                  THEN Some(IsSome(Val(f.pr).merged_at))
                ELSE prPayload.merged
      kind == IF event.action = "opened" THEN "pull_request_opened"
              ELSE IF event.action = "reopened" THEN "pull_request_reopened"
              ELSE IF merged = Some(TRUE) THEN "pull_request_merged"
              ELSE "pull_request_closed"
      url == IF Falsy(url1) /\ IsSome(prNumber)
               THEN Some(pullRequestHtmlUrl(event.repo, Val(prNumber))) ELSE url1
      title == IF ~Falsy(title1) THEN Val(title1)
               ELSE IF kind = "pull_request_merged"
                 THEN "Merged pull request" \o Suffix(prNumber)
               ELSE IF event.action = "opened"
                 THEN "Opened pull request" \o Suffix(prNumber)
               ELSE IF event.action = "reopened"
                 THEN "Reopened pull request" \o Suffix(prNumber)
               ELSE "Closed pull request" \o Suffix(prNumber)
  IN Normalized(IF Falsy(url) THEN None
                ELSE Some(ActivityItem(event, kind, title, Val(url), summary, None)),
                f.memo, TrackerAfter(tracker, f))

\* The PullRequestEvent branch from the payload on.
PullRequestEventFetched(event, prPayload, prMemo, tracker, upstream) ==
  PullRequestEventItem(event, prPayload, PrNumber(event), tracker,
    fetchPullRequestIf(Falsy(prPayload.title)
                         \/ (event.action = "closed" /\ prPayload.merged = None),
                       resolvePullRequestApiUrl(event), prMemo, upstream))

normalizePullRequestEvent(event, prMemo, tracker, upstream) ==
  IF event.action \notin {"opened", "closed", "reopened"}
    THEN Normalized(None, prMemo, tracker)
  ELSE PullRequestEventFetched(event, extractPullRequestPayload(event.pull_request),
                               prMemo, tracker, upstream)

\* The review branches from the lookup on; f is what the lookup gave, url0
\* the url of the review or comment, else of the payload's pull request.
ReviewEventItem(event, prPayload, prNumber, url0, tracker, f, isReview) ==
  LET title1 == IF IsSome(f.pr) THEN OptTrim(Val(f.pr).title) ELSE prPayload.title
      url1 == IF IsSome(f.pr) /\ isReview THEN Coalesce(url0, Val(f.pr).html_url)
              ELSE url0
      url == IF Falsy(url1) /\ IsSome(prNumber)
               THEN Some(pullRequestHtmlUrl(event.repo, Val(prNumber))) ELSE url1
      title == IF ~Falsy(title1) THEN Val(title1)
               ELSE IF isReview THEN "Review on pull request" \o Suffix(prNumber)
               ELSE "Review comment on pull request" \o Suffix(prNumber)
      reviewState == reviewStateFromGitHub(event.state)
      summary == summarizeText(event.body)
  IN Normalized(IF Falsy(url) THEN None
                ELSE IF isReview /\ reviewState = "commented" /\ summary = None THEN None
                ELSE IF isReview
                  THEN Some(ActivityItem(event, "pull_request_review", title, Val(url),
                                         summary, Some(reviewState)))
                ELSE Some(ActivityItem(event, "pull_request_review_comment", title,
                                       Val(url), summary, None)),
                f.memo, TrackerAfter(tracker, f))

\* The review branches from the payload on.
ReviewEventFetched(event, prPayload, prMemo, tracker, upstream, isReview) ==
  ReviewEventItem(event, prPayload, PrNumberOfPullRequest(event),
    Coalesce(event.html, prPayload.htmlUrl), tracker,
    fetchPullRequestIf(Falsy(prPayload.title), resolvePullRequestApiUrl(event),
                       prMemo, upstream),
    isReview)

\* PullRequestReviewEvent (isReview) and PullRequestReviewCommentEvent.
normalizeReviewEvent(event, prMemo, tracker, upstream, isReview) ==
  IF event.action # "created" THEN Normalized(None, prMemo, tracker)
  ELSE ReviewEventFetched(event, extractPullRequestPayload(event.pull_request),
                          prMemo, tracker, upstream, isReview)

normalizeEvent(event, prMemo, tracker, upstream) ==
  CASE event.type = "IssuesEvent" ->
         Normalized(normalizeTitledEvent(event, "opened", "issue_opened"), prMemo, tracker)
    [] event.type = "PullRequestEvent" ->
         normalizePullRequestEvent(event, prMemo, tracker, upstream)
    [] event.type = "IssueCommentEvent" ->
         Normalized(normalizeTitledEvent(event, "created", "issue_or_pr_comment"),
                    prMemo, tracker)
    [] event.type = "PullRequestReviewEvent" ->
         normalizeReviewEvent(event, prMemo, tracker, upstream, TRUE)
    [] event.type = "PullRequestReviewCommentEvent" ->
         normalizeReviewEvent(event, prMemo, tracker, upstream, FALSE)
    [] event.type = "ReleaseEvent" ->
         Normalized(normalizeReleaseEvent(event), prMemo, tracker)
    [] OTHER -> Normalized(None, prMemo, tracker)

PreviewTitle(event, prNumber) ==
  IF event.action = "opened" THEN "Opened pull request #" \o ToString(prNumber)
  ELSE IF event.action = "reopened" THEN "Reopened pull request #" \o ToString(prNumber)
  ELSE "Closed pull request #" \o ToString(prNumber)

normalizeEventPreview(event) ==
  CASE event.type = "IssuesEvent" -> normalizeTitledEvent(event, "opened", "issue_opened")
    [] event.type = "PullRequestEvent" ->
         IF event.action \notin {"opened", "closed", "reopened"} \/ PrNumber(event) = None
           THEN None
         ELSE Some(ActivityItem(event,
                     IF event.action = "opened" THEN "pull_request_opened"
                     ELSE IF event.action = "reopened" THEN "pull_request_reopened"
                     ELSE "pull_request_closed",
                     PreviewTitle(event, Val(PrNumber(event))),
                     pullRequestHtmlUrl(event.repo, Val(PrNumber(event))), None, None))
    [] event.type = "IssueCommentEvent" ->
         normalizeTitledEvent(event, "created", "issue_or_pr_comment")
    [] event.type = "PullRequestReviewEvent" ->
         LET prNumber == PrNumberOfPullRequest(event)
             reviewState == reviewStateFromGitHub(event.state)
             summary == summarizeText(event.body)
         IN IF event.action # "created" \/ prNumber = None THEN None
            ELSE IF reviewState = "commented" /\ summary = None THEN None
            ELSE Some(ActivityItem(event, "pull_request_review",
                        "Review on pull request #" \o ToString(Val(prNumber)),
                        Val(Coalesce(event.html,
                                     Some(pullRequestHtmlUrl(event.repo, Val(prNumber))))),
                        summary, Some(reviewState)))
    [] event.type = "PullRequestReviewCommentEvent" ->
         LET prNumber == PrNumberOfPullRequest(event) IN
         IF event.action # "created" \/ prNumber = None \/ Falsy(event.html) THEN None
         ELSE Some(ActivityItem(event, "pull_request_review_comment",
                     "Review comment on pull request #" \o ToString(Val(prNumber)),
                     Val(event.html), summarizeText(event.body), None))
    [] event.type = "ReleaseEvent" -> normalizeReleaseEvent(event)
    [] OTHER -> None

(***************************************************************************)
(* worker/src/github/events.ts: getRecentActivity, getRecentActivityPreview *)
(*                                                                         *)
(* agg is the state of one call: its clamped options, the locals of the    *)
(* function, and its result.  One action is the stretch of the function    *)
(* that follows one answer of fetchEventsPage: the fork lookups, the pull  *)
(* request lookups and the normalisation of that page, up to the next      *)
(* fetchEventsPage or to the return.  The lookups of a page are keyed by   *)
(* distinct URLs, so each draws its own outcome.                           *)
(***************************************************************************)
MaxLimit == 2
MaxPages == 2
MaxPageLen == 2

Min(a, b) == IF a < b THEN a ELSE b
Max(a, b) == IF a > b THEN a ELSE b

TrimmedPullRequest(repo, number) ==
  [NoPullRequest EXCEPT !.url = Some(repoApiUrl(repo) \o "/pulls/" \o ToString(number)),
                        !.number = Some(number)]

\* The events GitHub may list.  Two of them are about the same pull request
\* and normalise to the same url; two carry the same created_at; action ""
\* is an event without payload.action.
Events ==
  { [EventOf("1", "IssuesEvent", "opened", "acme/widget", 30)
       EXCEPT !.title = Some(" Fix bug "),
              !.html = Some("https://github.com/acme/widget/issues/1"),
              !.body = Some("line one\nline two")],
    EventOf("2", "PushEvent", "", "acme/widget", 40),
    [EventOf("3", "PullRequestEvent", "closed", "acme/widget", 20)
       EXCEPT !.number = Some(7),
              !.pull_request = Some(TrimmedPullRequest("acme/widget", 7))],
    [EventOf("4", "PullRequestReviewEvent", "created", "acme/widget", 50)
       EXCEPT !.state = Some("approved"),
              !.pull_request = Some(TrimmedPullRequest("acme/widget", 7))],
    [EventOf("5", "IssueCommentEvent", "created", "me/forked", 40)
       EXCEPT !.title = Some("Upstream issue"),
              !.html = Some("https://github.com/me/forked/issues/2#issuecomment-1"),
              !.body = Some(" ")],
    [EventOf("6", "ReleaseEvent", "published", "acme/widget", 30)
       EXCEPT !.tag = Some("v1.0"),
              !.html = Some("https://github.com/acme/widget/releases/tag/v1.0")] }

\* What one page of the events API can hold.
EventPages == UNION {[1..n -> Events] : n \in 0..MaxPageLen}

\* What the repository API says of repoUrl.
IsFork(repoUrl) == repoUrl = repoApiUrl("me/forked")

fetchRepoForkStatusFailClosed(repoUrl, memo, upstream) ==
  IF repoUrl \in DOMAIN memo THEN memo
  ELSE IF upstream[repoUrl] = "fail" THEN memo @@ (repoUrl :> TRUE)
  ELSE memo @@ (repoUrl :> IsFork(repoUrl))

\* fetchRepoForkStatus: the memo entry when there is one, else the upstream
\* lookup, whose outcome upstream[repoUrl] is "ok" or "fail"; a failed
\* lookup is memoised as not a fork.
fetchRepoForkStatus(repoUrl, memo, upstream) ==
  IF repoUrl \in DOMAIN memo THEN memo
  ELSE IF upstream[repoUrl] = "fail" THEN memo @@ (repoUrl :> FALSE)
  ELSE memo @@ (repoUrl :> IsFork(repoUrl))

\* Array.from(new Set(events.map((event) => event.repo.url)))
RepoUrls(events) == {repoApiUrl(events[i].repo) : i \in 1..Len(events)}

\* await Promise.all(repoUrls.map(fetchRepoForkStatus))
ForkStatuses(memo, repoUrls, upstream) ==
  [u \in DOMAIN memo \cup repoUrls |-> fetchRepoForkStatus(u, memo, upstream)[u]]

CandidatesAll(events, forkMemo) == events

\* events.filter((event) => !forkMemo.get(event.repo.url))
Candidates(events, forkMemo) ==
  SelectSeq(events, LAMBDA e : ~forkMemo[repoApiUrl(e.repo)])

\* The pull-request URLs needsPullRequestFetch names for the candidates.
PrApiUrls(candidates) ==
  {Val(needsPullRequestFetch(candidates[i])) :
     i \in {j \in 1..Len(candidates) : ~Falsy(needsPullRequestFetch(candidates[j]))}}

\* Every pull-request URL a lookup for this page can be about.
ResolvablePrApiUrls(events) ==
  {Val(resolvePullRequestApiUrl(events[i])) :
     i \in {j \in 1..Len(events) : ~Falsy(resolvePullRequestApiUrl(events[j]))}}

\* await Promise.all(Array.from(prApiUrls).map(fetchPullRequest))
PullRequests(memo, prApiUrls, upstream) ==
  [u \in DOMAIN memo \cup prApiUrls |-> fetchPullRequest(u, memo, upstream).memo[u]]

seenUrlsHasNever(seenUrls, url) == FALSE

seenUrlsHas(seenUrls, url) == url \in seenUrls

CollectLastWins(a, item) ==
  IF item = None THEN a
  ELSE IF Val(item).url \in a.seenUrls
    THEN [a EXCEPT !.skipped = TRUE,
                   !.items = [i \in DOMAIN @ |->
                                IF @[i].url = Val(item).url THEN Val(item) ELSE @[i]]]
  ELSE [a EXCEPT !.seenUrls = @ \cup {Val(item).url}, !.items = Append(@, Val(item))]

\* if (!item) continue; if (seenUrls.has(item.url)) continue;
\* seenUrls.add(item.url); items.push(item)
Collect(a, item) ==
  IF item = None THEN a
  ELSE IF seenUrlsHas(a.seenUrls, Val(item).url) THEN [a EXCEPT !.skipped = TRUE]
  ELSE [a EXCEPT !.seenUrls = @ \cup {Val(item).url}, !.items = Append(@, Val(item))]

\* One turn of the loop over the candidates: n is what normalizeEvent gave.
CollectNormalized(a, n) ==
  Collect([a EXCEPT !.prMemo = n.prMemo, !.tracker = n.tracker], n.item)

\* if (items.length >= limit) break, which follows a push.
Break(a, a1) == Len(a1.items) > Len(a.items) /\ Len(a1.items) >= a1.limit

\* The loop over the candidates of one page.
RECURSIVE NormalizeCandidates(_, _, _, _)
RECURSIVE NextCandidate(_, _, _, _, _)
NormalizeCandidates(a, candidates, i, upstream) ==
  IF i > Len(candidates) THEN a
  ELSE NextCandidate(a,
         CollectNormalized(a, normalizeEvent(candidates[i], a.prMemo, a.tracker, upstream)),
         candidates, i, upstream)

NextCandidate(a, a1, candidates, i, upstream) ==
  IF Break(a, a1) THEN a1 ELSE NormalizeCandidates(a1, candidates, i + 1, upstream)

\* The loop of the preview over the events of its page.
RECURSIVE NormalizePreview(_, _, _)
RECURSIVE NextPreview(_, _, _, _)
NormalizePreview(a, events, i) ==
  IF i > Len(events) THEN a
  ELSE NextPreview(a, Collect(a, normalizeEventPreview(events[i])), events, i)

NextPreview(a, a1, events, i) ==
  IF Break(a, a1) THEN a1 ELSE NormalizePreview(a1, events, i + 1)

\* Date.parse(item.createdAt), for the timestamps GitHub sends.
CreatedAtMs(item) == Val(DateParse(item.createdAt))

sortItemsNot(items) == items

\* Where the stable sort puts x among the sorted s: behind the items that
\* do not come after it.
InsertItem(s, x, k) == SubSeq(s, 1, k) \o <<x>> \o SubSeq(s, k + 1, Len(s))

InsertSorted(s, x) ==
  InsertItem(s, x, Cardinality({i \in 1..Len(s) : CreatedAtMs(s[i]) >= CreatedAtMs(x)}))

\* items.sort((a, b) => Date.parse(b.createdAt) - Date.parse(a.createdAt))
RECURSIVE sortItems(_)
sortItems(items) ==
  IF items = <<>> THEN <<>>
  ELSE InsertSorted(sortItems(SubSeq(items, 1, Len(items) - 1)), items[Len(items)])

\* items.slice(0, limit)
slice(items, limit) == SubSeq(items, 1, Min(limit, Len(items)))

\* The tail of getRecentActivity: sort, build the response, return.
Return(a) ==
  [a EXCEPT !.phase = "returned",
            !.response = Some([items |-> slice(sortItems(a.items), a.limit),
                               partial |-> a.tracker.partial,
                               errorInfo |-> IF a.tracker.partial
                                               THEN a.tracker.errorInfo ELSE None])]

\* The tail of getRecentActivityPreview.
ReturnPreview(a) ==
  [a EXCEPT !.phase = "returned",
            !.response = Some([items |-> slice(a.items, a.limit),
                               partial |-> FALSE, errorInfo |-> None])]

\* The end of a turn of the while loop: break, go on to the next page, or
\* leave the loop; outside the loop the function returns.
EndOfPageIgnoringNext(a, next) ==
  IF Len(a.items) >= a.limit THEN Return(a)
  ELSE IF a.pageCount < a.maxPages THEN a
  ELSE Return(a)

\* if (items.length >= limit) break; nextUrl = next; and the loop's test.
EndOfPage(a, next) ==
  IF Len(a.items) >= a.limit THEN Return(a)
  ELSE IF next /\ a.pageCount < a.maxPages THEN a
  ELSE Return(a)

\* The pull-request lookups and the normalisation of the candidates.
NormalizePage(a, candidates, prUp) ==
  NormalizeCandidates([a EXCEPT !.prMemo = PullRequests(@, PrApiUrls(candidates), prUp)],
                      candidates, 1, prUp)

\* The fork lookups of a page have answered.
FilterPage(a, events, forkMemo, prUp) ==
  NormalizePage([a EXCEPT !.forkMemo = forkMemo], Candidates(events, forkMemo), prUp)

\* The fork lookups of this page that failed.
FailedLookups(upstream) == {u \in DOMAIN upstream : upstream[u] = "fail"}

\* The body of the while loop for a page that was fetched, and what follows
\* it: the next turn of the loop, or the return.
ProcessPage(a, events, next, forkUp, prUp) ==
  IF events = <<>> THEN Return(a)
  ELSE EndOfPage(FilterPage([a EXCEPT !.forkFailed = @ \cup FailedLookups(forkUp)],
                            events,
                            ForkStatuses(a.forkMemo, RepoUrls(events), forkUp), prUp),
                 next)

\* message.includes("pagination is limited for this resource")
IncludesPaginationLimited(message) ==
  message \in {"pagination is limited for this resource",
               "In order to keep the API fast for everyone, pagination is limited for this resource."}

\* What fetchGitHubResponse can fail with on the events URL.
PageErrors ==
  { GitHubErrorInfo("rate_limit", 429, "API rate limit exceeded"),
    GitHubErrorInfo("server", 500, "Server Error"),
    GitHubErrorInfo("validation", 422, "Validation Failed"),
    GitHubErrorInfo("validation", 422,
      "In order to keep the API fast for everyone, pagination is limited for this resource.") }

fetchEventsPageStrict(result) ==
  IF ~result.ok THEN [ok |-> FALSE, events |-> <<>>, nextUrl |-> FALSE, error |-> result.error]
  ELSE [ok |-> TRUE, events |-> result.events, nextUrl |-> result.next, error |-> None]

\* fetchEventsPage, given what fetchGitHubResponse returned: nextUrl is
\* whether the link header names a next page.
fetchEventsPage(result) ==
  IF ~result.ok
    THEN IF Val(result.error).status = 422
            /\ IncludesPaginationLimited(Val(result.error).message)
           THEN [ok |-> TRUE, events |-> <<>>, nextUrl |-> FALSE, error |-> None]
         ELSE [ok |-> FALSE, events |-> <<>>, nextUrl |-> FALSE, error |-> result.error]
  ELSE [ok |-> TRUE, events |-> result.events, nextUrl |-> result.next, error |-> None]

\* What fetchGitHubResponse returns.
Fetched(events, next) == [ok |-> TRUE, events |-> events, next |-> next, error |-> None]
Failed(error) == [ok |-> FALSE, events |-> <<>>, next |-> FALSE, error |-> Some(error)]

FailPageAlwaysThrows(a, error) ==
  [a EXCEPT !.phase = "thrown", !.thrown = Some(error)]

\* if (!pageResult.ok): with items in hand the response is partial, with
\* none the call throws.
FailPage(a, error) ==
  IF Len(a.items) > 0 THEN Return([a EXCEPT !.tracker = recordPartial(@, error)])
  ELSE [a EXCEPT !.phase = "thrown", !.thrown = Some(error)]

\* A note of the page fetchEventsPage handed over: whether it was empty or
\* named no next page.
Noted(a, pageResult) ==
  [a EXCEPT !.lastPageEnds = (pageResult.events = <<>> \/ ~pageResult.nextUrl)]

\* One turn of the while loop from the answer of fetchEventsPage on.
AfterFetch(a, pageResult, forkUp, prUp) ==
  IF ~pageResult.ok THEN FailPage(a, Val(pageResult.error))
  ELSE ProcessPage(Noted(a, pageResult), pageResult.events, pageResult.nextUrl,
                   forkUp, prUp)

\* getRecentActivityPreview from the answer of fetchEventsPage on.
AfterFetchPreview(a, pageResult) ==
  IF ~pageResult.ok THEN [a EXCEPT !.phase = "thrown", !.thrown = pageResult.error]
  ELSE ReturnPreview(NormalizePreview(a, pageResult.events, 1))

\* pageCount += 1, and a note of what the upstream answered.
Answered(a, answer) == [a EXCEPT !.pageCount = @ + 1, !.answered = answer]

\* Math.max(1, Math.min(10, options.maxPages ?? 5))
clampMaxPages(option) == Max(1, Min(10, IF IsSome(option) THEN Val(option) ELSE 5))

InitAgg ==
  /\ \E variant \in {"full", "preview"}, limit \in 0..MaxLimit, maxPages \in 0..MaxPages :
       agg = [variant |-> variant,
              limit |-> Max(1, Min(100, limit)),
              maxPages |-> clampMaxPages(Some(maxPages)),
              phase |-> "fetchEventsPage",
              pageCount |-> 0,
              items |-> <<>>, seenUrls |-> {},
              forkMemo |-> <<>>, prMemo |-> <<>>,
              tracker |-> [partial |-> FALSE, errorInfo |-> None],
              response |-> None, thrown |-> None,
              skipped |-> FALSE,
              forkFailed |-> {}, answered |-> "none",
              lastPageEnds |-> FALSE]
  /\ CacheIdle
  /\ ClassifyIdle
  /\ NormIdle
  /\ ClientIdle
  /\ LimIdle
  /\ AppIdle
  /\ RunIdle

\* The upstream answered with a page (next: it has a rel="next" link).
PageOk ==
  /\ agg.variant = "full" /\ agg.phase = "fetchEventsPage"
  /\ \E events \in EventPages, next \in BOOLEAN :
       \E forkUp \in [RepoUrls(events) \ DOMAIN agg.forkMemo -> {"ok", "fail"}] :
         \E prUp \in [ResolvablePrApiUrls(events) \ DOMAIN agg.prMemo
                        -> {"merged", "open", "fail"}] :
           agg' = AfterFetch(Answered(agg, "ok"), fetchEventsPage(Fetched(events, next)),
                             forkUp, prUp)
  /\ UNCHANGED <<cacheVars, classifyVars, normVars, clientVars, limVars, appVars, runVars>>

\* The upstream answered 422 "pagination is limited for this resource".
PagePaginationLimited ==
  /\ agg.variant = "full" /\ agg.phase = "fetchEventsPage"
  /\ \E error \in {e \in PageErrors : IncludesPaginationLimited(e.message)} :
       agg' = AfterFetch(Answered(agg, "limited"), fetchEventsPage(Failed(error)),
                         <<>>, <<>>)
  /\ UNCHANGED <<cacheVars, classifyVars, normVars, clientVars, limVars, appVars, runVars>>

\* The request for the page failed in any other way.
PageFailed ==
  /\ agg.variant = "full" /\ agg.phase = "fetchEventsPage"
  /\ \E error \in {e \in PageErrors : ~IncludesPaginationLimited(e.message)} :
       agg' = AfterFetch(Answered(agg, "failed"), fetchEventsPage(Failed(error)),
                         <<>>, <<>>)
  /\ UNCHANGED <<cacheVars, classifyVars, normVars, clientVars, limVars, appVars, runVars>>

PreviewOk ==
  /\ agg.variant = "preview" /\ agg.phase = "fetchEventsPage"
  /\ \E events \in EventPages, next \in BOOLEAN :
       agg' = AfterFetchPreview(Answered(agg, "ok"), fetchEventsPage(Fetched(events, next)))
  /\ UNCHANGED <<cacheVars, classifyVars, normVars, clientVars, limVars, appVars, runVars>>

\* The request of the preview failed; 422 "pagination is limited" counts
\* as an empty page here too.
PreviewFailed ==
  /\ agg.variant = "preview" /\ agg.phase = "fetchEventsPage"
  /\ \E error \in PageErrors :
       agg' = AfterFetchPreview(
                Answered(agg, IF IncludesPaginationLimited(error.message)
                                THEN "limited" ELSE "failed"),
                fetchEventsPage(Failed(error)))
  /\ UNCHANGED <<cacheVars, classifyVars, normVars, clientVars, limVars, appVars, runVars>>

NextAgg ==
  \/ PageOk
  \/ PagePaginationLimited
  \/ PageFailed
  \/ PreviewOk
  \/ PreviewFailed

SpecAgg == InitAgg /\ [][NextAgg]_vars

(***************************************************************************)
(* normalizeEvent and normalizeEventPreview on one raw event                *)
(*                                                                         *)
(* norm holds a raw event, whether it has a payload object at all, the     *)
(* outcome the pull-request lookup would have, and, once computed, what    *)
(* the two functions give for it.                                          *)
(***************************************************************************)
SupportedTypes ==
  {"IssuesEvent", "PullRequestEvent", "IssueCommentEvent", "PullRequestReviewEvent",
   "PullRequestReviewCommentEvent", "ReleaseEvent"}
OtherTypes == {"PushEvent", "WatchEvent", "CreateEvent", "ForkEvent"}
Actions == {"", "opened", "closed", "reopened", "created", "published", "edited"}
Titles == {None, Some(" "), Some(" Fix bug ")}
Bodies == {None, Some(""), Some(" "), Some("\n \n"), Some("line one\nline two")}
HtmlUrls == {None, Some(""), Some("https://github.com/acme/widget/issues/1")}
ReviewStates == {None, Some("commented"), Some("COMMENTED"), Some("approved")}
Tags == {None, Some("v1.0")}
Numbers == {None, Some(7)}

\* payload.pull_request: absent, an empty object, trimmed to url and
\* number, whole (merged, or with merged_at null), whole with a blank title
\* (without a merged flag, or not merged), whole with a merged_at time, and
\* with nothing but its API url.
WholePullRequest ==
  [TrimmedPullRequest("acme/widget", 7)
     EXCEPT !.title = Some("Add feature"),
            !.html_url = Some("https://github.com/acme/widget/pull/7"),
            !.body = Some("line one\nline two")]
PullRequestPayloads ==
  {None, Some(NoPullRequest), Some(TrimmedPullRequest("acme/widget", 7)),
   Some([WholePullRequest EXCEPT !.merged = Some(TRUE)]),
   Some([WholePullRequest EXCEPT !.hasMergedAt = TRUE]),
   Some([WholePullRequest EXCEPT !.title = Some(" ")]),
   Some([WholePullRequest EXCEPT !.title = Some(" "), !.merged = Some(FALSE)]),
   Some([WholePullRequest EXCEPT !.hasMergedAt = TRUE,
                                 !.merged_at = Some(toISOString(15000))]),
   Some([NoPullRequest
           EXCEPT !.url = Some("https://api.github.com/repos/acme/widget/pulls/8")])}

RawEvent(type, action) == EventOf("9", type, action, "acme/widget", 30)

\* The raw events, by type, over the fields the branch of the type reads.
RawEvents ==
  {RawEvent(type, action) : type \in OtherTypes, action \in Actions}
  \cup {[RawEvent(type, action) EXCEPT !.title = title, !.html = html, !.body = body] :
          type \in {"IssuesEvent", "IssueCommentEvent"}, action \in Actions,
          title \in Titles, html \in HtmlUrls, body \in Bodies}
  \cup {[RawEvent("ReleaseEvent", action)
           EXCEPT !.title = title, !.tag = tag, !.html = html, !.body = body] :
          action \in Actions, title \in Titles, tag \in Tags, html \in HtmlUrls,
          body \in Bodies}
  \cup {[RawEvent("PullRequestEvent", action)
           EXCEPT !.number = number, !.pull_request = pr] :
          action \in Actions, number \in Numbers, pr \in PullRequestPayloads}
  \cup {[RawEvent("PullRequestReviewEvent", action)
           EXCEPT !.state = state, !.body = body, !.html = html, !.pull_request = pr] :
          action \in Actions, state \in ReviewStates, body \in Bodies,
          html \in HtmlUrls, pr \in PullRequestPayloads}
  \cup {[RawEvent("PullRequestReviewCommentEvent", action)
           EXCEPT !.body = body, !.html = html, !.pull_request = pr] :
          action \in Actions, body \in Bodies, html \in HtmlUrls,
          pr \in PullRequestPayloads}

\* An event without a payload object has none of the payload's fields.
InitNormalize ==
  /\ \/ \E event \in RawEvents, prUp \in {"merged", "open", "fail"} :
          norm = [event |-> event, payload |-> TRUE, prUp |-> prUp, out |-> None]
     \/ \E type \in SupportedTypes \cup OtherTypes :
          norm = [event |-> RawEvent(type, ""), payload |-> FALSE, prUp |-> "open",
                  out |-> None]
  /\ CacheIdle
  /\ ClassifyIdle
  /\ AggIdle
  /\ ClientIdle
  /\ LimIdle
  /\ AppIdle
  /\ RunIdle

\* payload.action of a payload that is undefined: a TypeError, in the
\* branches that read the payload.
Throws(event, payload) == ~payload /\ event.type \in SupportedTypes

\* The lookup a call of normalizeEvent can make, and its outcome.
LookupOf(event, prUp) ==
  IF Falsy(resolvePullRequestApiUrl(event)) THEN <<>>
  ELSE (Val(resolvePullRequestApiUrl(event)) :> prUp)

\* normalizeEvent with an empty memo and a clean tracker, and
\* normalizeEventPreview, on the event.
Normalize ==
  /\ norm.out = None
  /\ norm' =
       [norm EXCEPT !.out =
          IF Throws(norm.event, norm.payload)
            THEN Some([threw |-> TRUE, full |-> None, preview |-> None,
                       tracker |-> [partial |-> FALSE, errorInfo |-> None]])
          ELSE Some([threw |-> FALSE,
                     full |-> normalizeEvent(norm.event, <<>>,
                                [partial |-> FALSE, errorInfo |-> None],
                                LookupOf(norm.event, norm.prUp)).item,
                     preview |-> normalizeEventPreview(norm.event),
                     tracker |-> normalizeEvent(norm.event, <<>>,
                                   [partial |-> FALSE, errorInfo |-> None],
                                   LookupOf(norm.event, norm.prUp)).tracker])]
  /\ UNCHANGED <<cacheVars, classifyVars, aggVars, clientVars, limVars, appVars, runVars>>

NextNormalize == Normalize

SpecNormalize == InitNormalize /\ [][NextNormalize]_vars

(***************************************************************************)
(* worker/src/github/client.ts: fetchGitHubResponse                        *)
(*                                                                         *)
(* client is the state of one call: the retries option, the loop counter,  *)
(* where the call is suspended (in fetch, in delay), and what it returned. *)
(***************************************************************************)
DEFAULT_RETRIES == 2
DEFAULT_RETRY_BASE_MS == 250
DEFAULT_RETRY_MAX_DELAY_MS == 2000
DEFAULT_RETRY_MAX_AFTER_MS == 1000

\* options.retries ranges over 0..MaxRetries.
MaxRetries == 2

\* What a response of GitHub can carry: the status, the message of the
\* body after parseErrorMessage, the retry-after header in seconds.
Statuses == {200, 204, 304, 400, 401, 403, 404, 422, 429, 500, 503}
Messages ==
  {None, Some("Not Found"), Some("API rate limit exceeded for user"),
   Some("You have exceeded a Secondary Rate Limit"),
   Some("You have triggered an abuse detection mechanism")}
RetryAfters == {None, Some(0), Some(1), Some(2)}
\* Math.random() * 100
Jitters == {0, 50, 99}

\* message.toLowerCase() includes "rate limit", "secondary rate limit" or
\* "abuse detection", on the messages above.
isRateLimitMessage(message) ==
  IF Falsy(message) THEN FALSE
  ELSE Val(message) \in {"API rate limit exceeded for user",
                         "You have exceeded a Secondary Rate Limit",
                         "You have triggered an abuse detection mechanism"}

classifyErrorKindForbidden(status, message) ==
  IF status = 401 THEN "unauthorized"
  ELSE IF status = 429 THEN "rate_limit"
  ELSE IF status = 403 THEN "forbidden"
  ELSE IF status = 404 THEN "not_found"
  ELSE IF status = 422 THEN "validation"
  ELSE IF status >= 500 THEN "server"
  ELSE "unknown"

classifyErrorKind(status, message) ==
  IF status = 401 THEN "unauthorized"
  ELSE IF status = 403 /\ isRateLimitMessage(message) THEN "rate_limit"
  ELSE IF status = 429 THEN "rate_limit"
  ELSE IF status = 403 THEN "forbidden"
  ELSE IF status = 404 THEN "not_found"
  ELSE IF status = 422 THEN "validation"
  ELSE IF status >= 500 THEN "server"
  ELSE "unknown"

shouldRetryErrorAlways(info) == TRUE

shouldRetryError(info) ==
  \/ info.kind = "network" \/ info.kind = "timeout" \/ info.kind = "server"
  \/ info.kind = "rate_limit"

computeBackoffMsNoCeiling(attempt, retryAfter, jitter) ==
  IF IsSome(retryAfter) THEN Some(Val(retryAfter) * 1000)
  ELSE Some(Min(DEFAULT_RETRY_BASE_MS * 2 ^ Max(0, attempt - 1),
                DEFAULT_RETRY_MAX_DELAY_MS) + jitter)

\* computeBackoffMs with the default options: null (None) when retryAfter
\* asks for more than retryMaxAfterMs.
computeBackoffMs(attempt, retryAfter, jitter) ==
  IF IsSome(retryAfter)
    THEN IF Val(retryAfter) * 1000 > DEFAULT_RETRY_MAX_AFTER_MS THEN None
         ELSE Some(Val(retryAfter) * 1000)
  ELSE Some(Min(DEFAULT_RETRY_BASE_MS * 2 ^ Max(0, attempt - 1),
                DEFAULT_RETRY_MAX_DELAY_MS) + jitter)

\* The info of a response that is not ok.
HttpErrorInfo(status, message, retryAfter) ==
  [kind |-> classifyErrorKind(status, message), status |-> Some(status),
   retryAfter |-> retryAfter,
   message |-> IF Falsy(message) THEN None ELSE message]

\* The info of a fetch that threw: aborted by the timeout, or not.
ThrownErrorInfo(aborted) ==
  [kind |-> IF aborted THEN "timeout" ELSE "network", status |-> None,
   retryAfter |-> None,
   message |-> IF aborted THEN Some("GitHub API request timed out")
               ELSE Some("Network error")]

\* if (attempt < retries && shouldRetryError(info)) { backoff = ..;
\* if (backoff != null) { await delay(backoff); continue } } return error
AfterError(c, info, backoff) ==
  IF c.attempt < c.retries /\ shouldRetryError(info) /\ IsSome(backoff)
    THEN [c EXCEPT !.phase = "delay", !.delayMs = Val(backoff), !.error = Some(info)]
  ELSE [c EXCEPT !.phase = "returned", !.result = "error", !.error = Some(info)]

\* One more call of fetch, and how it ended.
Attempted(c, cause) == [c EXCEPT !.attempts = @ + 1, !.cause = cause]

InitClient ==
  /\ \E retries \in 0..MaxRetries :
       client = [retries |-> retries, attempt |-> 0, phase |-> "fetch",
                 attempts |-> 0, cause |-> "none",
                 result |-> "none", error |-> None, delayMs |-> 0]
  /\ CacheIdle
  /\ ClassifyIdle
  /\ AggIdle
  /\ NormIdle
  /\ LimIdle
  /\ AppIdle
  /\ RunIdle

\* fetch resolved with a response.
Respond(status, message, retryAfter, jitter) ==
  /\ client.phase = "fetch"
  /\ client' =
       IF status >= 200 /\ status <= 299
         THEN [Attempted(client, "response") EXCEPT !.phase = "returned", !.result = "ok",
                                                    !.error = None]
       ELSE AfterError(Attempted(client, "response"),
                       HttpErrorInfo(status, message, retryAfter),
                       computeBackoffMs(client.attempt, retryAfter, jitter))
  /\ UNCHANGED <<cacheVars, classifyVars, aggVars, normVars, limVars, appVars, runVars>>

\* fetch threw: the timeout aborted it, or the network failed.
Throw(aborted, jitter) ==
  /\ client.phase = "fetch"
  /\ client' = AfterError(Attempted(client, IF aborted THEN "aborted" ELSE "network"),
                          ThrownErrorInfo(aborted),
                          computeBackoffMs(client.attempt, None, jitter))
  /\ UNCHANGED <<cacheVars, classifyVars, aggVars, normVars, limVars, appVars, runVars>>

\* delay(backoff) is over: continue, attempt++, attempt <= retries.
Delayed ==
  /\ client.phase = "delay"
  /\ client' =
       IF client.attempt + 1 <= client.retries
         THEN [client EXCEPT !.attempt = @ + 1, !.phase = "fetch"]
       ELSE [client EXCEPT !.attempt = @ + 1, !.phase = "returned", !.result = "error",
               !.error = Some([kind |-> "unknown", status |-> None, retryAfter |-> None,
                               message |-> Some("GitHub API request failed")])]
  /\ UNCHANGED <<cacheVars, classifyVars, aggVars, normVars, limVars, appVars, runVars>>

NextClient ==
  \/ \E status \in Statuses, message \in Messages, retryAfter \in RetryAfters,
        jitter \in Jitters : Respond(status, message, retryAfter, jitter)
  \/ \E aborted \in BOOLEAN, jitter \in Jitters : Throw(aborted, jitter)
  \/ Delayed

SpecClient == InitClient /\ [][NextClient]_vars

(***************************************************************************)
(* worker/src/github/events.ts: createLimiter                              *)
(*                                                                         *)
(* lim is one limiter and the tasks given to it.  Tasks are numbered in    *)
(* the order of their limitTask calls.  JavaScript runs each callback to   *)
(* its end, so a call of limitTask (push, runNext) is one step, the        *)
(* settling of a task's promise is one step, and its finally callback      *)
(* (active -= 1, runNext) is one step.                                     *)
(***************************************************************************)
CONCURRENCY_LIMIT == 4
MaxTasks == 6

\* The limits a limiter is created with.
Limits == 1..CONCURRENCY_LIMIT

InitLimiter ==
  /\ \E limit \in Limits :
       lim = [limit |-> limit, active |-> 0, queue |-> <<>>, running |-> {},
              settled |-> {}, submitted |-> 0, started |-> <<>>]
  /\ CacheIdle
  /\ ClassifyIdle
  /\ AggIdle
  /\ NormIdle
  /\ ClientIdle
  /\ AppIdle
  /\ RunIdle

\* job(): fn() is called, the task is in flight.
Started(l, task) ==
  [l EXCEPT !.running = @ \cup {task}, !.started = Append(@, task)]

runNextUnbounded(l) ==
  IF l.queue = <<>> THEN l
  ELSE Started([l EXCEPT !.queue = Tail(@), !.active = @ + 1], Head(l.queue))

runNext(l) ==
  IF l.active >= l.limit THEN l
  ELSE IF l.queue = <<>> THEN l
  ELSE Started([l EXCEPT !.queue = Tail(@), !.active = @ + 1], Head(l.queue))

\* limitTask(fn): without a limit fn() runs at once; else the job is
\* queued and runNext is called.
limitTask(l, task) ==
  IF l.limit <= 0 THEN Started([l EXCEPT !.submitted = task], task)
  ELSE runNext([l EXCEPT !.submitted = task, !.queue = Append(@, task)])

Submit ==
  /\ lim # <<>>
  /\ lim.submitted < MaxTasks
  /\ lim' = limitTask(lim, lim.submitted + 1)
  /\ UNCHANGED <<cacheVars, classifyVars, aggVars, normVars, clientVars, appVars, runVars>>

\* The promise of fn() settles, fulfilled or rejected.
Settle(task) ==
  /\ lim # <<>>
  /\ task \in lim.running
  /\ lim' = [lim EXCEPT !.running = @ \ {task}, !.settled = @ \cup {task}]
  /\ UNCHANGED <<cacheVars, classifyVars, aggVars, normVars, clientVars, appVars, runVars>>

\* .finally(() => { active -= 1; runNext(); })
Finally(task) ==
  /\ lim # <<>>
  /\ task \in lim.settled
  /\ lim' = runNext([lim EXCEPT !.settled = @ \ {task}, !.active = @ - 1])
  /\ UNCHANGED <<cacheVars, classifyVars, aggVars, normVars, clientVars, appVars, runVars>>

NextLimiter ==
  \/ Submit
  \/ \E task \in 1..MaxTasks : Settle(task)
  \/ \E task \in 1..MaxTasks : Finally(task)

SpecLimiter == InitLimiter /\ [][NextLimiter]_vars

(***************************************************************************)
(* src/App.tsx: the activity state of the App component                    *)
(*                                                                         *)
(* app holds the component's state, the copy kept in localStorage, the     *)
(* two fetches still under way, and the responses offered to the state so  *)
(* far.  Each callback runs to its end: the mount effects are one step,    *)
(* the arrival of each response is one step.                               *)
(***************************************************************************)
MaxTime == 2

\* generatedAt of a response: an ISO timestamp, or a string that is none.
GeneratedAts == {BadHeader} \cup {toISOString(t) : t \in 1..MaxTime}

\* ActivityResponse: items stands for the list of items, equal names for
\* lists that isSameActivitySnapshot finds equal.
ActivityResponses ==
  [generatedAt : GeneratedAts, partial : BOOLEAN, items : {"items A", "items B"}]

ActivitySources == {"preview", "full"}

\* What localStorage holds under activity-cache-v1 that readCachedActivity
\* accepts.
CachedActivities == [data : ActivityResponses, source : ActivitySources]

Loading == [status |-> "loading"]
ErrorState == [status |-> "error"]
Loaded(data, source) == [status |-> "loaded", data |-> data, source |-> source]

parseTimestamp(iso) == DateParse(iso)

isSameActivitySnapshot(next, current) == next.items = current.items

shouldApplyActivityAlways(next, source, prev) == TRUE

shouldApplyActivity(next, source, prev) ==
  IF prev.status # "loaded" THEN TRUE
  ELSE LET nextTime == parseTimestamp(next.generatedAt)
           prevTime == parseTimestamp(prev.data.generatedAt)
       IN IF prevTime = None /\ nextTime # None THEN TRUE
          ELSE IF nextTime = None /\ prevTime # None THEN FALSE
          ELSE IF nextTime # None /\ prevTime # None /\ Val(nextTime) > Val(prevTime)
            THEN TRUE
          ELSE IF nextTime # None /\ prevTime # None /\ Val(nextTime) < Val(prevTime)
            THEN FALSE
          ELSE IF prev.data.partial # next.partial THEN TRUE
          ELSE IF source = "full" /\ prev.source # "full" THEN TRUE
          ELSE ~isSameActivitySnapshot(next, prev.data)

shouldReplaceCached(next, source, existing) ==
  LET nextTime == parseTimestamp(next.generatedAt)
      prevTime == parseTimestamp(existing.data.generatedAt)
  IN IF prevTime = None THEN TRUE
     ELSE IF nextTime = None THEN FALSE
     ELSE IF Val(nextTime) > Val(prevTime) THEN TRUE
     ELSE Val(nextTime) = Val(prevTime) /\ source = "full" /\ existing.source # "full"

\* localStorage after writeCachedActivity(data, source).
writeCachedActivity(stored, data, source) ==
  IF IsSome(stored) /\ ~shouldReplaceCached(data, source, Val(stored)) THEN stored
  ELSE Some([data |-> data, source |-> source])

\* applyActivity(data, source): the stored copy is written, then the state
\* is set by shouldApplyActivity.
applyActivity(a, data, source) ==
  [a EXCEPT
     !.stored = writeCachedActivity(@, data, source),
     !.state = IF shouldApplyActivity(data, source, @) THEN Loaded(data, source) ELSE @,
     !.offered = @ \cup {[data |-> data, source |-> source,
                          applied |-> shouldApplyActivity(data, source, a.state)]}]

InitApp ==
  /\ \E stored \in {None} \cup {Some(c) : c \in CachedActivities} :
       app = [state |-> Loading, stored |-> stored, mounted |-> FALSE,
              waiting |-> {}, offered |-> {}]
  /\ CacheIdle
  /\ ClassifyIdle
  /\ AggIdle
  /\ NormIdle
  /\ ClientIdle
  /\ LimIdle
  /\ RunIdle

\* The effects of the mount: the stored copy, when there is one, becomes
\* the state, and both fetches are started.
Mount ==
  /\ app # <<>>
  /\ ~app.mounted
  /\ app' = [app EXCEPT
               !.mounted = TRUE,
               !.state = IF IsSome(app.stored)
                           THEN Loaded(Val(app.stored).data, Val(app.stored).source)
                         ELSE @,
               !.waiting = ActivitySources]
  /\ UNCHANGED <<cacheVars, classifyVars, aggVars, normVars, clientVars, limVars, runVars>>

\* fetchPreview, fetchFull: the response is ok and its body is data.
Arrive(source, data) ==
  /\ app # <<>>
  /\ source \in app.waiting
  /\ app' = applyActivity([app EXCEPT !.waiting = @ \ {source}], data, source)
  /\ UNCHANGED <<cacheVars, classifyVars, aggVars, normVars, clientVars, limVars, runVars>>

\* fetchPreview: the response is not ok, or the fetch threw; nothing is done.
PreviewFails ==
  /\ app # <<>>
  /\ "preview" \in app.waiting
  /\ app' = [app EXCEPT !.waiting = @ \ {"preview"}]
  /\ UNCHANGED <<cacheVars, classifyVars, aggVars, normVars, clientVars, limVars, runVars>>

\* fetchFull: the response is not ok, or the fetch threw; a state that is
\* loaded stays, otherwise the stored copy is shown, or else the error.
FullFails ==
  /\ app # <<>>
  /\ "full" \in app.waiting
  /\ app' = [app EXCEPT
               !.waiting = @ \ {"full"},
               !.state = IF @.status = "loaded" THEN @
                         ELSE IF IsSome(app.stored)
                           THEN Loaded(Val(app.stored).data, Val(app.stored).source)
                         ELSE ErrorState]
  /\ UNCHANGED <<cacheVars, classifyVars, aggVars, normVars, clientVars, limVars, runVars>>

NextApp ==
  \/ Mount
  \/ \E source \in ActivitySources, data \in ActivityResponses : Arrive(source, data)
  \/ PreviewFails
  \/ FullFails

SpecApp == InitApp /\ [][NextApp]_vars

(***************************************************************************)
(* worker/src/github/events.ts: getRecentActivity, lookup by lookup         *)
(*                                                                         *)
(* run is one call of getRecentActivity on pages and upstream answers that *)
(* are given from the start.  It has the fields of agg, and with them the  *)
(* script (the pages the events API hands out, in turn), forkUp and prUp   *)
(* (what the repository and the pull-request API answer for each URL), the *)
(* lookups in flight, the candidates of the page and the position of the   *)
(* loop over them, and, as history, how often each URL was requested from  *)
(* the upstream and the order in which the lookups answered.  The lookups  *)
(* that Promise.all started complete one at a time, in any order.          *)
(***************************************************************************)
RunEvents ==
  {e \in Events : e.id \in {"3", "4", "5"}}
  \cup {[EventOf("7", "PullRequestEvent", "opened", "acme/widget", 60)
           EXCEPT !.number = Some(8),
                  !.pull_request = Some(TrimmedPullRequest("acme/widget", 8))]}

RunPages == UNION {[1..n -> RunEvents] : n \in 0..MaxPageLen}

\* Two pages: the first names a next page, which holds at most one event.
Scripts ==
  {<<[events |-> first, next |-> TRUE], [events |-> second, next |-> FALSE]>> :
     first \in RunPages, second \in {<<>>} \cup {<<e>> : e \in RunEvents}}

RunRepoUrls == {repoApiUrl(e.repo) : e \in RunEvents}
RunPrApiUrls == {Val(resolvePullRequestApiUrl(e)) :
                   e \in {x \in RunEvents : IsSome(resolvePullRequestApiUrl(x))}}

\* What the pull-request API answers: the lookup of pull request 7 may fail
\* with a server error, that of pull request 8 with a rate limit.
PullRequestAnswers ==
  {prUp \in [RunPrApiUrls -> {"open", "fail", "rate_limit"}] :
     \A u \in RunPrApiUrls :
       prUp[u] \in IF u = "https://api.github.com/repos/acme/widget/pulls/7"
                     THEN {"open", "fail"} ELSE {"open", "rate_limit"}}

InitRun ==
  /\ \E script \in Scripts, limit \in 1..MaxLimit,
        forkUp \in [RunRepoUrls -> {"ok", "fail"}],
        prUp \in PullRequestAnswers :
       run = [variant |-> "full",
              limit |-> Max(1, Min(100, limit)),
              maxPages |-> clampMaxPages(Some(Len(script))),
              phase |-> "fetchEventsPage",
              pageCount |-> 0,
              items |-> <<>>, seenUrls |-> {},
              forkMemo |-> <<>>, prMemo |-> <<>>,
              tracker |-> [partial |-> FALSE, errorInfo |-> None],
              response |-> None, thrown |-> None,
              skipped |-> FALSE,
              forkFailed |-> {}, answered |-> "none",
              lastPageEnds |-> FALSE,
              script |-> script, forkUp |-> forkUp, prUp |-> prUp,
              pending |-> {}, candidates |-> <<>>, idx |-> 1,
              requested |-> [u \in RunRepoUrls \cup RunPrApiUrls |-> 0],
              completed |-> <<>>]
  /\ CacheIdle
  /\ ClassifyIdle
  /\ AggIdle
  /\ NormIdle
  /\ ClientIdle
  /\ LimIdle
  /\ AppIdle

\* The page the loop is at.
CurrentPage(r) == r.script[r.pageCount]

\* limiter(() => fetchGitHubJson(url)) was called for each of urls.
Requested(r, urls) ==
  [r EXCEPT !.pending = urls,
            !.requested = [u \in DOMAIN @ |-> IF u \in urls THEN @[u] + 1 ELSE @[u]]]

\* The lookups a Promise.all over urls sends upstream: those the memo does
\* not answer.
NotMemoized(memo, urls) == urls \ DOMAIN memo

\* pageCount += 1; fetchEventsPage answers; an empty page ends the loop,
\* otherwise the fork lookups of the page's repositories start.
StartForkLookups(r, events) ==
  IF events = <<>> THEN Return(r)
  ELSE Requested([r EXCEPT !.phase = "forkLookups"],
                 NotMemoized(r.forkMemo, RepoUrls(events)))

FetchPage ==
  /\ run # <<>> /\ run.phase = "fetchEventsPage"
  /\ run' = StartForkLookups(Answered(run, "ok"), run.script[run.pageCount + 1].events)
  /\ UNCHANGED <<cacheVars, classifyVars, aggVars, normVars, clientVars, limVars, appVars>>

ForkLookupAnsweredForAll(r, u) ==
  [r EXCEPT !.forkMemo = @ @@ [v \in r.pending |->
                                 fetchRepoForkStatus(u, r.forkMemo, r.forkUp)[u]],
            !.pending = {},
            !.completed = Append(@, u)]

\* memo.set(repoApiUrl, isFork) of the lookup that answered.
ForkLookupAnswered(r, u) ==
  [r EXCEPT !.forkMemo = fetchRepoForkStatus(u, @, r.forkUp),
            !.pending = @ \ {u},
            !.completed = Append(@, u)]

\* One of the fork lookups in flight answers and is memoised.
ForkLookupCompletes(u) ==
  /\ run # <<>> /\ run.phase = "forkLookups"
  /\ u \in run.pending
  /\ run' = ForkLookupAnswered(run, u)
  /\ UNCHANGED <<cacheVars, classifyVars, aggVars, normVars, clientVars, limVars, appVars>>

\* The first Promise.all is through: the candidates are filtered and the
\* pull-request lookups they need start.
StartPullRequestLookups(r, candidates) ==
  Requested([r EXCEPT !.phase = "prLookups", !.candidates = candidates, !.idx = 1],
            NotMemoized(r.prMemo, PrApiUrls(candidates)))

ForkLookupsDone ==
  /\ run # <<>> /\ run.phase = "forkLookups"
  /\ run.pending = {}
  /\ run' = StartPullRequestLookups(run, Candidates(CurrentPage(run).events, run.forkMemo))
  /\ UNCHANGED <<cacheVars, classifyVars, aggVars, normVars, clientVars, limVars, appVars>>

\* memo.set(prApiUrl, ..) of the lookup that answered.
PullRequestLookupAnswered(r, u) ==
  [r EXCEPT !.prMemo = fetchPullRequest(u, @, r.prUp).memo,
            !.pending = @ \ {u},
            !.completed = Append(@, u)]

\* One of the pull-request lookups in flight answers and is memoised.
PullRequestLookupCompletes(u) ==
  /\ run # <<>> /\ run.phase = "prLookups"
  /\ u \in run.pending
  /\ run' = PullRequestLookupAnswered(run, u)
  /\ UNCHANGED <<cacheVars, classifyVars, aggVars, normVars, clientVars, limVars, appVars>>

\* The lookup normalizeEvent sends upstream for the event: the one it
\* needs, when the memo does not answer it.
LookupsOfNormalizeEvent(event, prMemo) ==
  IF IsSome(needsPullRequestFetch(event))
    THEN NotMemoized(prMemo, {Val(needsPullRequestFetch(event))})
  ELSE {}

\* The turn of the loop over the candidates is through: break, or go on
\* to the next candidate.
AfterCandidate(r, r1) ==
  IF Break(r, r1) THEN EndOfPage([r1 EXCEPT !.phase = "fetchEventsPage"],
                                 CurrentPage(r).next)
  ELSE [r1 EXCEPT !.idx = @ + 1]

\* One turn of the loop over the candidates.
NormalizeCandidate(r, event) ==
  AfterCandidate(r,
    [CollectNormalized(r, normalizeEvent(event, r.prMemo, r.tracker, r.prUp))
       EXCEPT !.requested =
                [u \in DOMAIN @ |->
                   IF u \in LookupsOfNormalizeEvent(event, r.prMemo)
                     THEN @[u] + 1 ELSE @[u]]])

NormalizeNext ==
  /\ run # <<>> /\ run.phase = "prLookups"
  /\ run.pending = {}
  /\ run.idx <= Len(run.candidates)
  /\ run' = NormalizeCandidate(run, run.candidates[run.idx])
  /\ UNCHANGED <<cacheVars, classifyVars, aggVars, normVars, clientVars, limVars, appVars>>

\* The loop over the candidates ran out: the end of the turn of the while
\* loop.
CandidatesDone ==
  /\ run # <<>> /\ run.phase = "prLookups"
  /\ run.pending = {}
  /\ run.idx > Len(run.candidates)
  /\ run' = EndOfPage([run EXCEPT !.phase = "fetchEventsPage"], CurrentPage(run).next)
  /\ UNCHANGED <<cacheVars, classifyVars, aggVars, normVars, clientVars, limVars, appVars>>

NextRun ==
  \/ FetchPage
  \/ \E u \in RunRepoUrls : ForkLookupCompletes(u)
  \/ ForkLookupsDone
  \/ \E u \in RunPrApiUrls : PullRequestLookupCompletes(u)
  \/ NormalizeNext
  \/ CandidatesDone

SpecRun == InitRun /\ [][NextRun]_vars

(***************************************************************************)
(* Claims about the edge cache handler (checked under Spec)                *)
(***************************************************************************)
LeaseWindowMs == LOCK_MAX_AGE_SECONDS * 1000
Stale(r) == cstate[r] \in {"stale", "expired"}
Unmarked(res) == [res EXCEPT !.xcache = ""]

C2_StaleServedWithoutWaiting ==
  \A r \in Requests :
    Stale(r) =>
      /\ bg[r] # "none" => pc[r] = "done"
      /\ pc[r] = "done" =>
           /\ resp[r].status = 200
           /\ resp[r].body = Val(cached[r]).body
           /\ resp[r].xcache = "STALE"

\* A stale and an expired hit were both answered, and the refresh the stale
\* one started has failed.
C2_Witness ==
  \E r, q \in Requests :
    /\ cstate[r] = "stale" /\ cstate[q] = "expired"
    /\ pc[r] = "done" /\ pc[q] = "done"
    /\ bg[r] = "failed" /\ resp[r].status = 200 /\ resp[q].status = 200

\* C3: the step in which a background refresh ends in a thrown error leaves
\* the cache entry as it was.
C3_FailedRefreshKeepsEntry ==
  [][\A r \in Requests :
       (bg[r] = "running" /\ bg'[r] = "failed") => cache' = cache]_vars

\* A refresh has failed and the entry its request read is still in the cache.
C3_Witness ==
  \E r \in Requests : bg[r] = "failed" /\ IsSome(cache) /\ cache = cached[r]

\* C4: every step of a request that found a fresh entry is its answer, with
\* the cached content marked HIT, and changes neither the cache entry, the
\* lease, the rate-limit side entry nor any background task or pending put.
C4_FreshHitDoesNothingElse ==
  [][\A r \in Requests :
       (pc'[r] # pc[r] /\ cstate'[r] = "fresh") =>
         /\ pc'[r] = "done"
         /\ resp'[r] = [Val(cache) EXCEPT !.xcache = "HIT"]
         /\ UNCHANGED <<cache, lease, rlReset, bg, pendingPut, refreshes>>]_vars

\* A fresh hit was answered while a lease and a rate-limit reset were recorded.
C4_Witness ==
  \E r \in Requests :
    /\ cstate[r] = "fresh" /\ pc[r] = "done" /\ resp[r].xcache = "HIT"
    /\ IsSome(lease) /\ IsSome(rlReset)

\* C5: on a miss nothing is answered before the aggregation ends; when it
\* returned a response, the answer is that response (generated by this
\* request at that moment) marked MISS, a put of it under the cache key is
\* issued in the same step, and that put writes it to the cache.
C5_MissFetchesAndStores ==
  [][\A r \in Requests :
       /\ pc[r] = "miss" => resp[r] = NoResp
       /\ (pc[r] = "miss" /\ pc'[r] # "miss" /\ resp'[r].status = 200) =>
            /\ pc'[r] = "putting"
            /\ resp'[r].xcache = "MISS"
            /\ resp'[r].body.tag = "data"
            /\ resp'[r].body.by = r
            /\ resp'[r].body.generatedAt = now
            /\ pendingPut'[r] = Some(Unmarked(resp'[r]))
       /\ (pc[r] = "putting" /\ pc'[r] # "putting") =>
            cache' = Some(Unmarked(resp[r]))]_vars

\* A miss was answered with a response and the cache holds that response.
C5_Witness ==
  \E r \in Requests :
    /\ cstate[r] = "miss" /\ pc[r] = "done" /\ resp[r].status = 200
    /\ cache = Some(Unmarked(resp[r]))

RateLimitActive == IsSome(rlReset) /\ Val(rlReset) > now \div 1000

\* C6: the rate-limit check of a request that found a stale or expired entry:
\* while the recorded reset is in the future it answers with the stale
\* content and that reset, and writes no lease, starts no refresh and changes
\* nothing else; when no reset is recorded or it is not in the future, the
\* request goes on to the lease check, where a refresh can be started.
C6_ActiveResetSkipsRefresh ==
  [][\A r \in Requests :
       (pc[r] = "rl" /\ pc'[r] # "rl") =>
         IF RateLimitActive
           THEN /\ pc'[r] = "done"
                /\ resp'[r] = [Val(cached[r]) EXCEPT !.xcache = "STALE",
                                                     !.xreset = rlReset]
                /\ UNCHANGED <<cache, lease, rlReset, bg, pendingPut, refreshes>>
           ELSE /\ pc'[r] = "lock"
                /\ resp'[r] = resp[r]]_vars

\* A stale hit was answered with the active reset and started nothing, although
\* the lease is older than 15 s and would have allowed a refresh.
C6_Witness ==
  \E r \in Requests :
    /\ Stale(r) /\ pc[r] = "done" /\ bg[r] = "none"
    /\ RateLimitActive /\ resp[r].xreset = rlReset /\ resp[r].xcache = "STALE"
    /\ IsSome(lease) /\ now - Val(lease).xgen.t > LeaseWindowMs

\* The requests that found no entry and are awaiting their own call of
\* getRecentActivity.
MissAggregations == {r \in Requests : pc[r] = "miss"}

\* C23, as stated: requests that arrive while no cache entry exists do not
\* each start their own upstream aggregation, that is, at no moment are two
\* of them awaiting an aggregation of their own.
C23_MissesDoNotEachAggregate == Cardinality(MissAggregations) <= 1

\* The refresh attempts whose lease timestamps lie within one lease window
\* of that of attempt a.
SameLeaseWindow(a) ==
  {b \in refreshes : b.at - a.at <= LeaseWindowMs /\ a.at - b.at <= LeaseWindowMs}

\* C24, as stated: however many requests race on the lease of one stale
\* entry, at most two refresh attempts are started within one lease window.
C24_AtMostOneExtraRefresh ==
  \A a \in refreshes : Cardinality(SameLeaseWindow(a)) <= 2

\* C26, as stated: as long as no request read the lease while another was
\* between its lease read and its lease write, any two refresh starts are
\* more than 15 s apart.
C26_RefreshStartsFifteenSecondsApart ==
  ~raced =>
    \A a, b \in refreshes :
      a # b => (a.started - b.started > LeaseWindowMs
                \/ b.started - a.started > LeaseWindowMs)

\* C26, amended: as long as no request read the lease while another was
\* between its lease read and its lease write, the lease timestamps of any
\* two refreshes are more than 15 s apart, no refresh starts before its
\* lease timestamp, and the lease is at least as young as every refresh's
\* timestamp, whatever became of the earlier refresh; and the step in which
\* a refresh ends, returning or throwing, leaves the lease as it is.
C26_LeaseTimestampsFifteenSecondsApart ==
  /\ [](~raced =>
          /\ \A a, b \in refreshes :
               a # b => (a.at - b.at > LeaseWindowMs \/ b.at - a.at > LeaseWindowMs)
          /\ \A a \in refreshes :
               /\ a.started >= a.at
               /\ IsSome(lease) /\ Val(lease).xgen.t >= a.at)
  /\ [][\A r \in Requests :
          (bg[r] = "running" /\ bg'[r] # "running") => lease' = lease]_vars

\* C26 happens: without a race, a second refresh has a lease timestamp 16 s
\* after that of the first, which is still running.
C26_Witness ==
  \E a, b \in refreshes :
    /\ ~raced
    /\ bg[a.req] = "running"
    /\ b.at = a.at + 16000

\* C27: the step that ends the aggregation of a request that found no
\* entry answers either with status 200 and the data, or (the aggregation
\* threw) with status 502 and an error body, and in the latter case it
\* issues no put and leaves the cache entry as it is; a request answered
\* with 502 is one that found no entry, is done and has neither a pending
\* put nor a background task.
C27_FailedMissAnswers502 ==
  /\ [](\A r \in Requests :
          resp[r].status = 502 =>
            /\ cstate[r] = "miss" /\ pc[r] = "done"
            /\ resp[r].body.tag = "error"
            /\ pendingPut[r] = None /\ bg[r] = "none")
  /\ [][\A r \in Requests :
          (pc[r] = "miss" /\ pc'[r] # "miss") =>
            \/ resp'[r].status = 200 /\ resp'[r].body.tag = "data"
            \/ /\ resp'[r].status = 502 /\ resp'[r].body.tag = "error"
               /\ cache' = cache /\ pendingPut' = pendingPut]_vars

\* C27 happens: two requests found no entry, the aggregation of both
\* failed, one with a GitHub error and one with another exception, both
\* were answered with 502, and the cache still has no entry.
C27_Witness ==
  \E r, q \in Requests :
    /\ resp[r].status = 502 /\ resp[r].body.errKind = "rate_limit"
    /\ resp[q].status = 502 /\ resp[q].body.errKind = "exception"
    /\ cache = None

(***************************************************************************)
(* Claims about freshness classification (checked under SpecClassify)      *)
(***************************************************************************)
Classified == cOut # <<>>
KnownAge == cIn.xgen.k = "iso"
AgeMs == cIn.clock - cIn.xgen.t
MaxAgeMs == cIn.policy.maxAgeSeconds * 1000
SwrEndMs == (cIn.policy.maxAgeSeconds + cIn.policy.staleWhileRevalidateSeconds) * 1000

\* C7: a known age a is fresh when a <= maxAge, stale when
\* maxAge < a <= maxAge + swr, expired when a > maxAge + swr; with
\* maxAge = 60, swr = 300: 60.0 s is fresh, 60.1 s stale, 360.1 s expired.
C7_ClassifyKnownAge ==
  (Classified /\ KnownAge) =>
    /\ Val(cOut).age = Some(AgeMs)
    /\ AgeMs <= MaxAgeMs => Val(cOut).state = "fresh"
    /\ (MaxAgeMs < AgeMs /\ AgeMs <= SwrEndMs) => Val(cOut).state = "stale"
    /\ AgeMs > SwrEndMs => Val(cOut).state = "expired"
    /\ cIn.policy = DEFAULT_CACHE_POLICY =>
         /\ AgeMs = 60000 => Val(cOut).state = "fresh"
         /\ AgeMs = 60100 => Val(cOut).state = "stale"
         /\ AgeMs = 360100 => Val(cOut).state = "expired"

\* Age 60.1 s under (60, 300) has been classified, as stale.
C7_Witness ==
  /\ Classified /\ KnownAge /\ cIn.policy = DEFAULT_CACHE_POLICY
  /\ AgeMs = 60100 /\ Val(cOut).state = "stale"

\* C8, as stated: an entry without a generation marker, or with one that
\* cannot be parsed, is classified expired.
C8_UnknownAgeIsExpired ==
  (Classified /\ ~KnownAge) => Val(cOut).state = "expired"

\* C8, amended: an entry without a generation marker, or with one that cannot
\* be parsed, has no age and is classified stale, whatever the policy.
C8_UnknownAgeIsStale ==
  (Classified /\ ~KnownAge) => (Val(cOut).age = None /\ Val(cOut).state = "stale")

\* An entry with an unparsable marker has been classified.
C8_Witness ==
  Classified /\ cIn.xgen = BadHeader /\ Val(cOut).state = "stale"

(***************************************************************************)
(* Claims about the aggregation (checked under SpecAgg)                    *)
(***************************************************************************)
Returned == agg.phase = "returned"
ResponseItems == Val(agg.response).items

\* C9: in every response of the full aggregation and of the preview, the
\* url values of the items are pairwise distinct.
C9_UrlsPairwiseDistinct ==
  Returned =>
    \A i, j \in 1..Len(ResponseItems) :
      i # j => ResponseItems[i].url # ResponseItems[j].url

\* C9 happens: a response of two items or more was returned after an item
\* whose url had been seen was left out.
C9_Witness ==
  /\ Returned
  /\ agg.skipped
  /\ Len(ResponseItems) >= 2

\* C10: in the response of getRecentActivity every item was created no
\* earlier than the item that follows it.
C10_SortedByCreatedAtDescending ==
  (Returned /\ agg.variant = "full") =>
    \A i \in 1..(Len(ResponseItems) - 1) :
      CreatedAtMs(ResponseItems[i]) >= CreatedAtMs(ResponseItems[i + 1])

\* C10 happens: getRecentActivity returned two items or more that it had
\* collected in another order, from more than one page.
C10_Witness ==
  /\ Returned
  /\ agg.variant = "full"
  /\ agg.pageCount >= 2
  /\ Len(ResponseItems) >= 2
  /\ ResponseItems # agg.items

\* The pull-request lookups of the run that failed.
PrFailed == {u \in DOMAIN agg.prMemo : IsSome(agg.prMemo[u].error)}

\* The repository of an item is a fork.
FromFork(item) == IsFork(repoApiUrl(item.repo.name))

C12_PartialMeansFailure ==
  (Returned /\ Val(agg.response).partial) =>
    \/ agg.answered = "failed"
    \/ PrFailed # {}
    \/ agg.forkFailed # {}

\* C12 happens: every page was fetched, a pull-request lookup failed and
\* the response is marked partial.
C12_Witness ==
  /\ Returned
  /\ Val(agg.response).partial
  /\ agg.answered = "ok"
  /\ PrFailed # {}

\* C13 as stated: a response that is not marked partial comes from a run in
\* which no page fetch, no pull-request lookup and no fork lookup failed.
C13_NotPartialMeansNoFailure ==
  (Returned /\ agg.variant = "full" /\ ~Val(agg.response).partial) =>
    /\ agg.answered # "failed"
    /\ PrFailed = {}
    /\ agg.forkFailed = {}

\* C14: when the fetch of a page fails, getRecentActivity throws that error
\* and gives no response if it has no item yet; else it returns the items
\* it has, marked partial, with the first error recorded.
C14_PageFailure ==
  [][(/\ agg.variant = "full"
      /\ agg.phase = "fetchEventsPage"
      /\ agg'.phase # "fetchEventsPage"
      /\ agg'.answered = "failed")
     => IF Len(agg.items) = 0
          THEN /\ agg'.phase = "thrown"
               /\ agg'.response = None
               /\ IsSome(agg'.thrown) /\ Val(agg'.thrown) \in PageErrors
          ELSE /\ agg'.phase = "returned"
               /\ agg'.thrown = None
               /\ Len(Val(agg'.response).items) = Len(agg.items)
               /\ {Val(agg'.response).items[i] : i \in 1..Len(agg.items)}
                    = {agg.items[i] : i \in 1..Len(agg.items)}
               /\ Val(agg'.response).partial
               /\ IsSome(Val(agg'.response).errorInfo)
               /\ IsSome(agg.tracker.errorInfo)
                    => Val(agg'.response).errorInfo = agg.tracker.errorInfo
               /\ agg.tracker.errorInfo = None
                    => Val(Val(agg'.response).errorInfo) \in PageErrors]_vars

\* C14 happens: the fetch of the second page failed with items in hand.
C14_Witness ==
  /\ Returned
  /\ agg.variant = "full"
  /\ agg.answered = "failed"
  /\ agg.pageCount = 2
  /\ Len(ResponseItems) >= 1
  /\ Val(agg.response).partial

\* C18: a page answered with 422 "pagination is limited for this resource"
\* is an empty last page: the run returns what it has, throws nothing and
\* is not marked partial for it.
C18_PaginationLimitedIsCleanEnd ==
  [][(/\ agg.phase = "fetchEventsPage"
      /\ agg'.phase # "fetchEventsPage"
      /\ agg'.answered = "limited")
     => /\ \A e \in PageErrors :
             (e.status = 422 /\ IncludesPaginationLimited(e.message)) =>
               /\ fetchEventsPage(Failed(e)).ok
               /\ fetchEventsPage(Failed(e)).events = <<>>
               /\ ~fetchEventsPage(Failed(e)).nextUrl
        /\ agg'.phase = "returned"
        /\ agg'.thrown = None
        /\ Len(Val(agg'.response).items) = Len(agg.items)
        /\ Val(agg'.response).partial = agg.tracker.partial]_vars

\* C18 happens: the first page was answered with that 422 and the run
\* returned an empty response that is not partial.
C18_Witness ==
  /\ Returned
  /\ agg.answered = "limited"
  /\ agg.pageCount = 1
  /\ ResponseItems = <<>>
  /\ ~Val(agg.response).partial

FullRun == agg # <<>> /\ agg.variant = "full"
AwaitingPage(a) == a.phase = "fetchEventsPage"

\* C28: a full run fetches at most maxPages pages, maxPages being the
\* option clamped to 1..10 and 5 without one; it awaits a page only while
\* fewer than maxPages were fetched and fewer than limit items collected;
\* every step is the answer to one more page fetch, after which no page
\* is awaited when the page was empty, named no next page, or brought the
\* items to the limit.  The run therefore ends after at most maxPages
\* answers.
C28_RunEndsWithinPageBudget ==
  /\ [](/\ clampMaxPages(None) = 5
        /\ \A n \in -1..12 : /\ clampMaxPages(Some(n)) \in 1..10
                            /\ n \in 1..10 => clampMaxPages(Some(n)) = n
        /\ FullRun =>
             /\ agg.pageCount <= agg.maxPages
             /\ AwaitingPage(agg) =>
                  agg.pageCount < agg.maxPages /\ Len(agg.items) < agg.limit)
  /\ [][(FullRun /\ agg' # agg) =>
          /\ AwaitingPage(agg)
          /\ agg'.pageCount = agg.pageCount + 1
          /\ (agg'.answered # "failed"
              /\ (agg'.lastPageEnds \/ Len(agg'.items) >= agg.limit))
             => ~AwaitingPage(agg')]_vars

\* C28 happens: a run with a budget of two pages fetched both, the second
\* naming a next page and leaving the items below the limit, and returned.
C28_Witness ==
  /\ FullRun
  /\ agg.phase = "returned"
  /\ agg.maxPages = 2 /\ agg.pageCount = 2
  /\ ~agg.lastPageEnds
  /\ Len(agg.items) < agg.limit

\* C29: a repository whose fork-status lookup failed is memoised as not a
\* fork; and when the lookup of the fork me/forked failed and the run ended
\* with fewer items than the limit (so every candidate was normalised), the
\* event of that repository is among the items, normalised as the
\* IssueCommentEvent it is.
C29_ForkLookupFailsOpen ==
  (agg # <<>> /\ agg.variant = "full") =>
    /\ \A u \in agg.forkFailed : u \in DOMAIN agg.forkMemo /\ ~agg.forkMemo[u]
    /\ (agg.phase # "fetchEventsPage" /\ repoApiUrl("me/forked") \in agg.forkFailed
        /\ Len(agg.items) < agg.limit)
       => \E i \in 1..Len(agg.items) :
            /\ agg.items[i].repo.name = "me/forked"
            /\ agg.items[i].id = "5"
            /\ agg.items[i].kind = "issue_or_pr_comment"

\* C29 happens: the lookup of me/forked failed while that of acme/widget
\* answered, and the response has an item of each repository.
C29_Witness ==
  /\ Returned
  /\ agg.variant = "full"
  /\ agg.forkFailed = {repoApiUrl("me/forked")}
  /\ repoApiUrl("acme/widget") \in DOMAIN agg.forkMemo
  /\ \E i, j \in 1..Len(ResponseItems) :
       /\ ResponseItems[i].repo.name = "me/forked"
       /\ ResponseItems[j].repo.name = "acme/widget"

(***************************************************************************)
(* Claims about the upstream client (checked under SpecClient)             *)
(***************************************************************************)
RetriedKinds == {"network", "timeout", "server", "rate_limit"}
ClientFailed == IsSome(client.error)
\* This step is a call of fetch that ended in an error.
AttemptFails ==
  /\ client.phase = "fetch"
  /\ client'.attempts = client.attempts + 1
  /\ IsSome(client'.error)

\* C15: a call makes at most retries + 1 attempts (3 with the default), an
\* attempt after the first follows an error of kind network, timeout, server
\* or rate_limit, and an attempt that fails with another kind is the last:
\* the call returns that error at once.
C15_RetryPolicy ==
  [][/\ client'.attempts <= client.retries + 1
     /\ client.retries = DEFAULT_RETRIES => client'.attempts <= 3
     /\ (client'.attempts = client.attempts + 1 /\ client.attempts >= 1)
          => (ClientFailed /\ Val(client.error).kind \in RetriedKinds)
     /\ (AttemptFails /\ Val(client'.error).kind \notin RetriedKinds)
          => /\ client'.phase = "returned"
             /\ client'.result = "error"
             /\ client.attempts = 0 => client'.attempts = 1
     /\ client.phase = "returned" => client' = client]_vars

\* C15 happens: with the default budget a call returned an error after its
\* third attempt.
C15_Witness ==
  /\ client.retries = DEFAULT_RETRIES
  /\ client.phase = "returned"
  /\ client.result = "error"
  /\ client.attempts = 3

\* C16: when an attempt fails with a retried kind and a retryAfter while
\* budget remains, the call waits retryAfter seconds if that is within the
\* ceiling, and else returns the error at once; a returned call does
\* nothing more.
C16_RetryAfter ==
  [][/\ (/\ AttemptFails
         /\ client.attempt < client.retries
         /\ Val(client'.error).kind \in RetriedKinds
         /\ IsSome(Val(client'.error).retryAfter))
          => IF Val(Val(client'.error).retryAfter) * 1000 <= DEFAULT_RETRY_MAX_AFTER_MS
               THEN /\ client'.phase = "delay"
                    /\ client'.delayMs = Val(Val(client'.error).retryAfter) * 1000
               ELSE /\ client'.phase = "returned"
                    /\ client'.result = "error"
     /\ client.phase = "returned" => client'.attempts = client.attempts]_vars

\* C16 happens: the first attempt of a call with budget 2 failed with a
\* retried kind and a retryAfter over the ceiling, and the call returned.
C16_Witness ==
  /\ client.retries = 2
  /\ client.phase = "returned"
  /\ client.attempts = 1
  /\ ClientFailed
  /\ Val(client.error).kind \in RetriedKinds
  /\ Val(client.error).retryAfter = Some(2)

\* A message that indicates a rate limit.
RateLimitIndicating(message) ==
  message \in {Some("API rate limit exceeded for user"),
               Some("You have exceeded a Secondary Rate Limit"),
               Some("You have triggered an abuse detection mechanism")}

\* C17: 401 is unauthorized; 403 with a rate-limit message, and 429, are
\* rate_limit; any other 403 is forbidden; 404 is not_found; 422 is
\* validation; 500 and above is server; any other status is unknown; a
\* timed-out fetch is timeout and any other thrown fetch is network.
C17_ErrorClassification ==
  ClientFailed =>
    LET e == Val(client.error) IN
    /\ client.cause = "aborted" => e.kind = "timeout"
    /\ client.cause = "network" => e.kind = "network"
    /\ client.cause = "response" =>
         e.kind = IF Val(e.status) = 401 THEN "unauthorized"
                  ELSE IF Val(e.status) = 429 THEN "rate_limit"
                  ELSE IF Val(e.status) = 403 /\ RateLimitIndicating(e.message)
                    THEN "rate_limit"
                  ELSE IF Val(e.status) = 403 THEN "forbidden"
                  ELSE IF Val(e.status) = 404 THEN "not_found"
                  ELSE IF Val(e.status) = 422 THEN "validation"
                  ELSE IF Val(e.status) >= 500 THEN "server"
                  ELSE "unknown"

\* C17 happens: a 403 with a rate-limit message came back as rate_limit.
C17_Witness ==
  /\ ClientFailed
  /\ client.cause = "response"
  /\ Val(client.error).status = Some(403)
  /\ RateLimitIndicating(Val(client.error).message)
  /\ Val(client.error).kind = "rate_limit"

(***************************************************************************)
(* Claims about normalisation (checked under SpecNormalize)                *)
(***************************************************************************)
NormalizedOut == IsSome(norm.out)

\* The actions with which an event of a supported type qualifies.
QualifyingActions(type) ==
  IF type = "IssuesEvent" THEN {"opened"}
  ELSE IF type = "PullRequestEvent" THEN {"opened", "closed", "reopened"}
  ELSE IF type = "ReleaseEvent" THEN {"published"}
  ELSE {"created"}

BlankBody(body) == body \in {None, Some(""), Some(" "), Some("\n \n")}

\* C20: for a PullRequestReviewEvent whose review state is commented and
\* whose body is absent, empty or of whitespace only, both normalisations
\* return null.
C20_EmptyCommentedReviewIsNull ==
  (/\ NormalizedOut
   /\ norm.payload
   /\ norm.event.type = "PullRequestReviewEvent"
   /\ norm.event.state \in {Some("commented"), Some("COMMENTED")}
   /\ BlankBody(norm.event.body))
  => /\ Val(norm.out).full = None
     /\ Val(norm.out).preview = None

\* C20 happens: a created review of a whole pull request, commented with a
\* body of whitespace, was normalised; with another state it is an item.
C20_Witness ==
  /\ NormalizedOut
  /\ norm.event.type = "PullRequestReviewEvent"
  /\ norm.event.action = "created"
  /\ norm.event.state = Some("commented")
  /\ norm.event.body = Some("\n \n")
  /\ norm.event.pull_request = Some([WholePullRequest EXCEPT !.merged = Some(TRUE)])

\* The merged status a payload's pull request carries: its merged flag,
\* else whether its merged_at, when it has the key, is a time; else none.
PayloadMerged(pr) ==
  IF pr = None THEN None
  ELSE IF IsSome(Val(pr).merged) THEN Val(pr).merged
  ELSE IF Val(pr).hasMergedAt THEN Some(IsSome(Val(pr).merged_at))
  ELSE None

\* Whether the pull request of the normalised event counts as merged: by
\* the payload when it carries a status, else by the detail when the
\* lookup can be made and answers (merged_at is a time).
CountsAsMerged ==
  IF IsSome(PayloadMerged(norm.event.pull_request))
    THEN Val(PayloadMerged(norm.event.pull_request))
  ELSE /\ IsSome(resolvePullRequestApiUrl(norm.event))
       /\ norm.prUp = "merged"

ClosedPullRequestNormalized ==
  /\ NormalizedOut
  /\ norm.payload
  /\ norm.event.type = "PullRequestEvent"
  /\ norm.event.action = "closed"
  /\ IsSome(Val(norm.out).full)

\* C21: the item full normalisation gives for a PullRequestEvent with
\* action closed has kind pull_request_merged exactly when the pull request
\* counts as merged, by the payload's status when it carries one and else
\* by the looked-up detail; otherwise it has kind pull_request_closed.
C21_MergedExactlyWhenMerged ==
  ClosedPullRequestNormalized
  => Val(Val(norm.out).full).kind =
       IF CountsAsMerged THEN "pull_request_merged" ELSE "pull_request_closed"

\* C21 happens: a closed pull request whose payload has url and number
\* only, and whose detail has a merged_at time, became a merged item.
C21_Witness ==
  /\ ClosedPullRequestNormalized
  /\ norm.event.pull_request = Some(TrimmedPullRequest("acme/widget", 7))
  /\ norm.prUp = "merged"
  /\ Val(Val(norm.out).full).kind = "pull_request_merged"

(***************************************************************************)
(* Claims about the concurrency limiter (checked under SpecLimiter)        *)
(***************************************************************************)
\* The tasks in flight: fn() was called and its promise has not settled.
InFlight == lim.running

Waiting == lim.queue # <<>>

\* C22: at every moment at most limit tasks are in flight; tasks start in
\* the order of their submission; a task waits only while the limiter is
\* full; and the finally step of a finished task, when tasks wait, starts
\* the one that has waited longest and no other.
C22_LimiterBoundAndFifo ==
  /\ [](/\ Cardinality(InFlight) <= lim.limit
        /\ \A i \in 1..Len(lim.started) : lim.started[i] = i
        /\ Waiting => lim.active = lim.limit)
  /\ [][(Waiting /\ Cardinality(lim'.settled) < Cardinality(lim.settled))
        => /\ lim'.started = Append(lim.started, Head(lim.queue))
           /\ lim'.queue = Tail(lim.queue)]_vars

\* C22 happens: with the default limit, more tasks have started than the
\* limit allows at once, and a task is still waiting.
C22_Witness ==
  /\ lim # <<>>
  /\ lim.limit = CONCURRENCY_LIMIT
  /\ Len(lim.started) > lim.limit
  /\ Waiting

(***************************************************************************)
(* Claims about the frontend (checked under SpecApp)                       *)
(***************************************************************************)
\* The instant of the displayed response's generatedAt, when the state is
\* loaded and its generatedAt is a timestamp.
DisplayedTime(a) ==
  IF a.state.status = "loaded" THEN parseTimestamp(a.state.data.generatedAt) ELSE None

\* C25: in every step, whichever of the stored copy, the preview response
\* and the full response arrives, a displayed response whose generatedAt is
\* a timestamp stays or is replaced by a response whose generatedAt is a
\* timestamp that is not older.
C25_GeneratedAtNeverDecreases ==
  [][IsSome(DisplayedTime(app))
       => /\ IsSome(DisplayedTime(app'))
          /\ Val(DisplayedTime(app')) >= Val(DisplayedTime(app))]_vars

\* C25 happens: the full response was displayed, and the preview response
\* that arrived after it with an older generatedAt was not applied.
C25_Witness ==
  /\ app # <<>>
  /\ app.waiting = {}
  /\ app.state = Loaded([generatedAt |-> toISOString(2), partial |-> FALSE,
                         items |-> "items A"], "full")
  /\ [data |-> [generatedAt |-> toISOString(1), partial |-> FALSE, items |-> "items B"],
      source |-> "preview", applied |-> FALSE] \in app.offered

\* The pull-request lookup full normalisation makes for the event failed.
LookupFailed ==
  /\ NormalizedOut
  /\ norm.payload
  /\ IsSome(needsPullRequestFetch(norm.event))
  /\ norm.prUp = "fail"

PayloadPullRequest ==
  IF IsSome(norm.event.pull_request) THEN Val(norm.event.pull_request) ELSE NoPullRequest

\* The pull-request number the branch of the event's type has.
KnownNumber ==
  IF norm.event.type = "PullRequestEvent"
    THEN Coalesce(PayloadPullRequest.number, norm.event.number)
  ELSE PayloadPullRequest.number

\* The url without the detail: that of the review or comment, else that of
\* the payload's pull request, else the permalink made from the number.
BestEffortUrl ==
  Coalesce(IF norm.event.type = "PullRequestEvent" THEN None ELSE norm.event.html,
    Coalesce(PayloadPullRequest.html_url,
      IF IsSome(KnownNumber)
        THEN Some("https://github.com/" \o norm.event.repo \o "/pull/"
                    \o ToString(Val(KnownNumber)))
      ELSE None))

NumberSuffix == IF IsSome(KnownNumber) THEN " #" \o ToString(Val(KnownNumber)) ELSE ""

\* The title without the detail: that of the payload's pull request when
\* it is not blank, else the one made from the verb and the number.
BestEffortTitle ==
  IF IsSome(PayloadPullRequest.title) /\ Trim(Val(PayloadPullRequest.title)) # ""
    THEN Trim(Val(PayloadPullRequest.title))
  ELSE IF norm.event.type = "PullRequestReviewEvent"
    THEN "Review on pull request" \o NumberSuffix
  ELSE IF norm.event.type = "PullRequestReviewCommentEvent"
    THEN "Review comment on pull request" \o NumberSuffix
  ELSE IF norm.event.action = "opened" THEN "Opened pull request" \o NumberSuffix
  ELSE IF norm.event.action = "reopened" THEN "Reopened pull request" \o NumberSuffix
  ELSE IF PayloadMerged(norm.event.pull_request) = Some(TRUE)
    THEN "Merged pull request" \o NumberSuffix
  ELSE "Closed pull request" \o NumberSuffix

\* A review that is dropped whatever the lookup gives (C20).
EmptyCommentedReview ==
  /\ norm.event.type = "PullRequestReviewEvent"
  /\ norm.event.state \in {Some("commented"), Some("COMMENTED")}
  /\ BlankBody(norm.event.body)

PullRequestEventNormalized ==
  /\ NormalizedOut
  /\ norm.payload
  /\ norm.event.type = "PullRequestEvent"
  /\ norm.event.action \in {"opened", "reopened", "closed"}

\* The detail resolved for the event: there is one when the lookup is
\* needed, can be made and answers.
ResolvedDetail ==
  IF IsSome(needsPullRequestFetch(norm.event)) /\ norm.prUp # "fail"
    THEN Some(PullRequestApiResponse(Val(needsPullRequestFetch(norm.event)), norm.prUp))
  ELSE None

\* A string that is there and not blank.
Present(o) == IsSome(o) /\ Trim(Val(o)) # ""

\* "<Verb> pull request #<n>", the verb being that of the item's kind.
SynthesizedTitle(kind) ==
  (CASE kind = "pull_request_opened" -> "Opened"
     [] kind = "pull_request_reopened" -> "Reopened"
     [] kind = "pull_request_merged" -> "Merged"
     [] OTHER -> "Closed") \o " pull request" \o NumberSuffix

\* The title by the precedence payload, detail, number.
TitleByPrecedence(kind) ==
  IF Present(PayloadPullRequest.title) THEN Trim(Val(PayloadPullRequest.title))
  ELSE IF IsSome(ResolvedDetail) /\ Present(Val(ResolvedDetail).title)
    THEN Trim(Val(Val(ResolvedDetail).title))
  ELSE SynthesizedTitle(kind)

\* The url by the precedence payload, detail, number; none when none of
\* the three gives one.
UrlByPrecedence ==
  IF Present(PayloadPullRequest.html_url) THEN PayloadPullRequest.html_url
  ELSE IF IsSome(ResolvedDetail) /\ Present(Val(ResolvedDetail).html_url)
    THEN Val(ResolvedDetail).html_url
  ELSE IF IsSome(KnownNumber)
    THEN Some(pullRequestHtmlUrl(norm.event.repo, Val(KnownNumber)))
  ELSE None

\* C31: for a PullRequestEvent with action opened, reopened or closed, the
\* title and the url of the item are the payload's when it has them, else
\* those of the resolved detail, else the ones made from the number; the
\* event is dropped exactly when none of the three gives a url.
C31_PayloadThenDetailThenNumber ==
  PullRequestEventNormalized =>
    IF UrlByPrecedence = None THEN Val(norm.out).full = None
    ELSE /\ IsSome(Val(norm.out).full)
         /\ Val(Val(norm.out).full).url = Val(UrlByPrecedence)
         /\ Val(Val(norm.out).full).title =
              TitleByPrecedence(Val(Val(norm.out).full).kind)

\* The part of C31 that holds: the url follows the precedence and decides
\* the drop, and the title follows it when the payload's title is not a
\* blank string.
C31_UrlByPrecedence ==
  PullRequestEventNormalized =>
    IF UrlByPrecedence = None THEN Val(norm.out).full = None
    ELSE /\ IsSome(Val(norm.out).full)
         /\ Val(Val(norm.out).full).url = Val(UrlByPrecedence)
         /\ (PayloadPullRequest.title = None \/ Present(PayloadPullRequest.title))
              => Val(Val(norm.out).full).title =
                   TitleByPrecedence(Val(Val(norm.out).full).kind)

(***************************************************************************)
(* Claims about one run, lookup by lookup (checked under SpecRun)          *)
(***************************************************************************)
RunReturned == run.phase = "returned"

\* The events the run went through when no break cut it short, in the
\* order of processing: page by page, and by position within the page.
ScriptEvents ==
  IF run.script[1].events = <<>> THEN <<>>
  ELSE run.script[1].events \o run.script[2].events

\* What the event becomes under the upstream answers of the run: nothing
\* when its repository is found to be a fork, else what normalizeEvent gives.
ItemOfEvent(e) ==
  IF run.forkUp[repoApiUrl(e.repo)] = "ok" /\ IsFork(repoApiUrl(e.repo)) THEN None
  ELSE normalizeEvent(e, <<>>, [partial |-> FALSE, errorInfo |-> None], run.prUp).item

\* The positions of the events that become an item with the url.
PositionsWithUrl(url) ==
  {j \in 1..Len(ScriptEvents) :
     IsSome(ItemOfEvent(ScriptEvents[j])) /\ Val(ItemOfEvent(ScriptEvents[j])).url = url}

FirstPosition(S) == CHOOSE j \in S : \A k \in S : j <= k

\* C32: of the events of a run that normalise to items with the same url,
\* exactly one item is in the response, and it is the item of the event
\* processed first (earlier page, or earlier position in the page); when
\* the run was not cut short at the limit, every such url has its item.
C32_FirstOccurrenceSurvives ==
  RunReturned =>
    /\ \A i \in 1..Len(Val(run.response).items) :
         /\ \A k \in 1..Len(Val(run.response).items) :
              Val(run.response).items[k].url = Val(run.response).items[i].url => k = i
         /\ PositionsWithUrl(Val(run.response).items[i].url) # {}
         /\ Val(run.response).items[i] =
              Val(ItemOfEvent(ScriptEvents[
                    FirstPosition(PositionsWithUrl(Val(run.response).items[i].url))]))
    /\ Len(Val(run.response).items) < run.limit =>
         \A j \in 1..Len(ScriptEvents) :
           IsSome(ItemOfEvent(ScriptEvents[j])) =>
             \E i \in 1..Len(Val(run.response).items) :
               Val(run.response).items[i].url = Val(ItemOfEvent(ScriptEvents[j])).url

\* C32 happens: the review of pull request 7 came on the first page and
\* the closing of the same pull request on the second, both normalise to
\* the pull request's url, and the response holds the review's item only.
C32_Witness ==
  /\ RunReturned
  /\ run.skipped
  /\ Len(run.script[1].events) = 1 /\ run.script[1].events[1].id = "4"
  /\ Len(run.script[2].events) = 1 /\ run.script[2].events[1].id = "3"
  /\ Len(Val(run.response).items) = 1
  /\ Val(run.response).items[1].id = "4"
  /\ Val(run.response).items[1].url = "https://github.com/acme/widget/pull/7"

\* The run as it started.
StartOfRun ==
  [run EXCEPT !.phase = "fetchEventsPage", !.pageCount = 0,
              !.items = <<>>, !.seenUrls = {}, !.forkMemo = <<>>, !.prMemo = <<>>,
              !.tracker = [partial |-> FALSE, errorInfo |-> None],
              !.response = None, !.skipped = FALSE, !.forkFailed = {},
              !.answered = "none", !.lastPageEnds = FALSE,
              !.pending = {}, !.candidates = <<>>, !.idx = 1,
              !.requested = [u \in DOMAIN @ |-> 0], !.completed = <<>>]

\* The run when the lookups of each page answer all at once.
RECURSIVE AllAtOnce(_)
AllAtOnce(a) ==
  IF a.phase = "returned" THEN a
  ELSE AllAtOnce(AfterFetch(Answered(a, "ok"),
                            fetchEventsPage(Fetched(a.script[a.pageCount + 1].events,
                                                    a.script[a.pageCount + 1].next)),
                            a.forkUp, a.prUp))

\* C33: for given pages and upstream answers, the response of the run (its
\* items in their order, its partial flag and its errorInfo) is the one the
\* run has when the lookups of each page answer all at once, whatever the
\* order in which they answered.
C33_CompletionOrderDoesNotMatter ==
  RunReturned => run.response = AllAtOnce(StartOfRun).response

\* C33 happens: the first page held the closing of pull request 7 and the
\* opening of pull request 8, both lookups failed, that of 8 answered
\* first, and the response has both items and the error of the lookup of
\* 7, whose event is normalised first.
C33_Witness ==
  /\ RunReturned
  /\ Len(run.script[1].events) = 2
  /\ run.script[1].events[1].id = "3" /\ run.script[1].events[2].id = "7"
  /\ run.completed = <<"https://api.github.com/repos/acme/widget",
                       "https://api.github.com/repos/acme/widget/pulls/8",
                       "https://api.github.com/repos/acme/widget/pulls/7">>
  /\ run.prUp["https://api.github.com/repos/acme/widget/pulls/7"] = "fail"
  /\ run.prUp["https://api.github.com/repos/acme/widget/pulls/8"] = "rate_limit"
  /\ Val(run.response).partial
  /\ Val(Val(run.response).errorInfo).kind = "server"
  /\ Len(Val(run.response).items) = 2

\* C39: in one run every repository URL and every pull-request URL is
\* requested from the upstream at most once, over all pages and events: a
\* URL that was looked up, with success or not, is answered from the memo
\* from then on, in the lookups before the loop over the candidates and in
\* normalizeEvent alike.
C39_EachUrlRequestedOnce ==
  /\ \A u \in DOMAIN run.requested : run.requested[u] <= 1
  /\ \A u \in DOMAIN run.forkMemo \cup DOMAIN run.prMemo : run.requested[u] = 1
  /\ \A u \in DOMAIN run.requested :
       run.requested[u] = 1 =>
         u \in run.pending \cup DOMAIN run.forkMemo \cup DOMAIN run.prMemo

\* C39 happens: pull request 7, whose lookup fails, is needed by an event
\* of the first page and by one of the second, both were normalised, and
\* its URL and that of the repository were requested once.
C39_Witness ==
  /\ RunReturned
  /\ Len(run.script[1].events) = 1 /\ run.script[1].events[1].id = "3"
  /\ Len(run.script[2].events) = 1 /\ run.script[2].events[1].id = "4"
  /\ run.prUp["https://api.github.com/repos/acme/widget/pulls/7"] = "fail"
  /\ run.pageCount = 2
  /\ run.skipped
  /\ run.requested["https://api.github.com/repos/acme/widget/pulls/7"] = 1
  /\ run.requested["https://api.github.com/repos/acme/widget"] = 1

(***************************************************************************)
(* Claims about the preview (checked under SpecAgg and SpecNormalize)      *)
(***************************************************************************)
\* C34: in the response of getRecentActivityPreview every item was created
\* no earlier than the item that follows it.
C34_PreviewSortedByCreatedAtDescending ==
  (Returned /\ agg.variant = "preview") =>
    \A i \in 1..(Len(ResponseItems) - 1) :
      CreatedAtMs(ResponseItems[i]) >= CreatedAtMs(ResponseItems[i + 1])

\* The items of the preview are in the order of their events on the page.
C34_PreviewKeepsPageOrder ==
  (Returned /\ agg.variant = "preview") => ResponseItems = agg.items

\* The payload carries everything full normalisation needs: it makes no
\* lookup, and not for want of a URL to look up.
PayloadComplete ==
  IF norm.event.type = "PullRequestEvent"
    THEN /\ Present(PayloadPullRequest.title)
         /\ norm.event.action = "closed" => IsSome(PayloadMerged(norm.event.pull_request))
  ELSE IF norm.event.type \in {"PullRequestReviewEvent", "PullRequestReviewCommentEvent"}
    THEN Present(PayloadPullRequest.title)
  ELSE TRUE

\* The fields of an item that the rules of normalisation decide.
RuleFields(item) ==
  IF item = None THEN None
  ELSE Some([kind |-> Val(item).kind, title |-> Val(item).title, url |-> Val(item).url,
             summary |-> Val(item).summary, reviewState |-> Val(item).reviewState])

\* C35: for an event whose payload carries everything full normalisation
\* needs, so that it makes no lookup, the preview and full normalisation
\* give the same kind, title, url, summary and reviewState, or both drop
\* the event.
C35_PreviewAgreesWithFull ==
  (NormalizedOut /\ norm.payload /\ PayloadComplete) =>
    /\ Val(norm.out).tracker = [partial |-> FALSE, errorInfo |-> None]
    /\ RuleFields(Val(norm.out).preview) = RuleFields(Val(norm.out).full)

\* The part of C35 that holds: the two agree on the events that are not
\* about a pull request's payload (issues, comments, releases, other types).
C35_PreviewAgreesOutsidePullRequests ==
  (NormalizedOut /\ norm.payload
     /\ norm.event.type \notin {"PullRequestEvent", "PullRequestReviewEvent",
                                "PullRequestReviewCommentEvent"}) =>
    RuleFields(Val(norm.out).preview) = RuleFields(Val(norm.out).full)

(***************************************************************************)
(* Claims about the rate-limit side entry and the refreshed entry          *)
(* (checked under Spec)                                                    *)
(***************************************************************************)
\* The step is the end of the aggregation of request r, in the background
\* refresh or on a miss, with the outcome out.
AggregationEnds(r, out) == RefreshReturn(r, out) \/ MissReturn(r, out)

\* C36: the step that ends an aggregation writes the rate-limit side entry
\* when the outcome, thrown or attached to a partial response, is an error
\* of kind rate_limit that carries a rateLimitReset, and the entry is then
\* that reset; with any other outcome it leaves the entry as it is, and no
\* other step changes the entry. The outcome is read from what the step
\* stores (a refresh that returned) or answers (a miss); a refresh that
\* threw shows nothing, and then the entry is untouched or the reset of a
\* thrown error.
SideEntryGiven(entry, errKind, reset) ==
  IF errKind = "rate_limit" /\ IsSome(reset) THEN reset ELSE entry

C36_SideEntryWrittenOnRateLimitOnly ==
  [][/\ \A r \in Requests :
          /\ (bg[r] = "running" /\ bg'[r] = "stored") =>
               rlReset' = SideEntryGiven(rlReset, Val(cache').body.errKind,
                                         Val(cache').xreset)
          /\ (bg[r] = "running" /\ bg'[r] = "failed") =>
               \E out \in AggOutcomes(now) :
                 /\ ~out.ok
                 /\ rlReset' = SideEntryGiven(rlReset, out.errKind, out.reset)
          /\ (pc[r] = "miss" /\ pc'[r] # "miss") =>
               rlReset' = SideEntryGiven(rlReset, resp'[r].body.errKind,
                                         resp'[r].xreset)
     /\ rlReset' # rlReset =>
          \E r \in Requests : \E out \in AggOutcomes(now) :
            /\ AggregationEnds(r, out)
            /\ out.errKind = "rate_limit"
            /\ IsSome(out.reset)]_vars

\* C36 happens: a background refresh stored a response that is partial
\* with a rate_limit error, and the side entry holds the reset of that
\* error, while the refresh of another request failed and wrote nothing
\* more.
C36_Witness ==
  \E r, q \in Requests :
    /\ bg[r] = "stored" /\ bg[q] = "failed"
    /\ IsSome(cache) /\ Val(cache).body.by = r
    /\ Val(cache).body.errKind = "rate_limit"
    /\ IsSome(rlReset) /\ rlReset = Val(cache).xreset

\* C37: every item that normalizeEvent or normalizeEventPreview gives has
\* a title and a url that are not empty.
C37_TitleAndUrlNotEmpty ==
  (NormalizedOut /\ norm.payload) =>
    /\ IsSome(Val(norm.out).full) =>
         Val(Val(norm.out).full).title # "" /\ Val(Val(norm.out).full).url # ""
    /\ IsSome(Val(norm.out).preview) =>
         Val(Val(norm.out).preview).title # "" /\ Val(Val(norm.out).preview).url # ""

\* The part of C37 that holds: the items of full normalisation have a
\* title and a url that are not empty, and those of the preview a title
\* that is not empty.
C37_FullTitleAndUrlNotEmpty ==
  (NormalizedOut /\ norm.payload) =>
    /\ IsSome(Val(norm.out).full) =>
         Val(Val(norm.out).full).title # "" /\ Val(Val(norm.out).full).url # ""
    /\ IsSome(Val(norm.out).preview) => Val(Val(norm.out).preview).title # ""

\* The specification's own wording, which holds: no item has a title and
\* a url that are both empty.
C37_TitleAndUrlNotBothEmpty ==
  (NormalizedOut /\ norm.payload) =>
    /\ IsSome(Val(norm.out).full) =>
         ~(Val(Val(norm.out).full).title = "" /\ Val(Val(norm.out).full).url = "")
    /\ IsSome(Val(norm.out).preview) =>
         ~(Val(Val(norm.out).preview).title = "" /\ Val(Val(norm.out).preview).url = "")

(***************************************************************************)
(* Claims about the backoff of fetchGitHubResponse.                        *)
(***************************************************************************)
\* This step is a failed attempt after which the call waits a computed
\* backoff: the error is retried, budget remains, it carries no retryAfter.
BackoffComputed ==
  /\ AttemptFails
  /\ client'.phase = "delay"
  /\ Val(client'.error).retryAfter = None

\* C38: when the error carries no retryAfter, the un-jittered delay before
\* each successive retry of one request doubles, starting at the base delay
\* (250 ms) for the first retry, until it reaches the maximum delay
\* (2000 ms), and the jitter added is less than 100 ms: the wait before
\* retry number k is min(250 * 2^(k-1), 2000) plus a jitter under 100.
\* client.attempt retries were made before this one.
C38_DelayDoublesFromBase ==
  [][BackoffComputed =>
       \E jitter \in 0..99 :
         client'.delayMs = Min(DEFAULT_RETRY_BASE_MS * 2 ^ client.attempt,
                               DEFAULT_RETRY_MAX_DELAY_MS) + jitter]_vars

\* What holds of C38: the jitter is under 100 ms, and the un-jittered delay
\* is the base delay before the first retry and before the second retry
\* alike; it doubles only from the third retry on, and is capped.
C38_DelayDoublesFromSecondRetry ==
  [][BackoffComputed =>
       \E jitter \in 0..99 :
         client'.delayMs =
           Min(IF client.attempt <= 1 THEN DEFAULT_RETRY_BASE_MS
               ELSE DEFAULT_RETRY_BASE_MS * 2 ^ (client.attempt - 1),
               DEFAULT_RETRY_MAX_DELAY_MS) + jitter]_vars

(***************************************************************************)
(* Claims about what a background refresh stores.                          *)
(***************************************************************************)
\* C40: whenever the aggregation of a background refresh returns a
\* response, the cache entry is overwritten with it, also when that
\* response is marked partial, so that a complete cached response can be
\* replaced by a partial one; the entry is left untouched only when the
\* aggregation ends in an error. The step that ends the refresh of request
\* r moves bg[r] from running to stored (it returned) or failed (it threw).
C40_RefreshStoresWhatItReturns ==
  [][\A r \in Requests :
       (bg[r] = "running" /\ bg'[r] # "running") =>
         IF bg'[r] = "stored"
           THEN /\ IsSome(cache')
                /\ Val(cache').status = 200
                /\ Val(cache').body.tag = "data"
                /\ Val(cache').body.by = r
                /\ Val(cache').body.generatedAt = now
                /\ Val(cache').body.partial = (Val(cache').body.errKind # "none")
                /\ \E out \in AggOutcomes(now) :
                     /\ out.ok
                     /\ Val(cache').body.errKind = out.errKind
                /\ cache' # cache
         ELSE cache' = cache]_vars

\* C40 happens: a background refresh stored a partial response over the
\* complete one its request had read.
C40_Witness ==
  \E r \in Requests :
    /\ bg[r] = "stored"
    /\ IsSome(cached[r]) /\ ~Val(cached[r]).body.partial
    /\ IsSome(cache) /\ Val(cache).body.partial /\ Val(cache).body.by = r

====
